---- MODULE Spec2Model ----
(***************************************************************************)
(* Model of the match-predictor backend's synchronisation subsystem:       *)
(* the lock/status protocol kept in the shared key-value store             *)
(* (SyncService + UpstashRedisStore), the start endpoint of                *)
(* SyncController, and the season/match reconciliation loop.               *)
(***************************************************************************)
EXTENDS Integers, Sequences, FiniteSets, TLC

\* ------------------------------------------------------------------ bounds
NumRequests == 2
MaxTicks == 2
MaxEvents == 2
MaxFaults == 1
MaxCooldowns == 2

\* ------------------------------------------------------- program constants
LOCK_TTL_MS == 7200000
TERMINAL_TTL_MS == 3600000
defaultTtl == 3600
DEFAULT_YEARS == 5
MIN_YEARS == 1
MAX_YEARS == 20
LA_LIGA == 4335
MLS == 4346
\* the year the model's clock is in (new Date().getFullYear())
BaseYear == 2025
\* SportsService: calls allowed in a window, and the wait once they are used up
RATE_LIMIT == 28
WAIT_TIME_MS == 60000
\* granularity of the model's clock, in seconds (one hour per Tick)
TickSeconds == TERMINAL_TTL_MS \div 1000

Requests == 1..NumRequests
NoTime == 0 - 1
\* the result of parseInt on a text that does not start with digits
NotANumber == 0 - 2
\* a query-parameter text: the integer its leading digits spell (NotANumber if
\* it starts with none) and what follows them
Text(lead, tail) == [given |-> TRUE, lead |-> lead, tail |-> tail]
\* the request carries no yearsToSync
NoParam == [given |-> FALSE, lead |-> NotANumber, tail |-> ""]

VARIABLES
    now,        \* wall clock, seconds
    lock,       \* key sync:previous-matches:lock of the key-value store
    status,     \* key sync:previous-matches:status of the key-value store
    pc,         \* position of each start request / background run
    years,      \* yearsToSync of each request
    resp,       \* HTTP status answered to each request (0: none yet)
    acqFrom,    \* caller of the acquireSyncLock in progress: "ctrl" or "bg"
    busy,       \* whether another request's run was in its loop when the request arrived
    lg,         \* index of the league being processed (0: not in the loop)
    cur,        \* currentStatus read by the last cacheManager.get of the run
    err,        \* message of the error the run is propagating ("none")
    bgSet,      \* background catch handler: its un-awaited status write is in flight
    bgDel,      \* background catch handler: progress of its setSyncLock(false)
    year,       \* the current calendar year
    feed,       \* provider: the events listed for each (league, season)
    scores,     \* provider: the score of each event (intHomeScore)
    weatherMode,\* weather client: what its calls end in ("snapshot", "none", "raises")
    matchStore, \* the Match collection
    venueStore, \* the Venue collection
    sp,         \* frame of the syncPreviousMatches call of each run
    agg,        \* totals accumulated by syncAllLeagues
    obs,        \* what is observed of each run: its provider calls, its logged failures
    apiCallCount, \* SportsService: calls counted in the current window
    call,       \* frame of the API-client call each caller is in
    apiKey,     \* whether OPENWEATHER_API_KEY is set in the environment
    quota,      \* what is observed of the rate limiter: calls since the last reset, cooldowns
    up,         \* frame of the SyncService.getUpcomingMatches call
    ex,         \* frame of the extractCoordinatesFromStrMap call
    vr          \* the last venue resolution: its provider answer and what it did

vars == <<now, lock, status, pc, years, resp, acqFrom, busy, lg, cur, err, bgSet, bgDel,
          year, feed, scores, weatherMode, matchStore, venueStore, sp, agg, obs,
          apiCallCount, call, apiKey, quota, up, ex, vr>>
storeVars == <<lock, status>>
providerVars == <<year, feed, scores, weatherMode>>
clientVars == <<apiCallCount, call, apiKey, quota, up, ex, vr>>
runVars == <<pc, years, resp, acqFrom, busy, lg, cur, err, bgSet, bgDel, ex, vr>>
reconcileVars == <<year, feed, scores, weatherMode, matchStore, venueStore, sp, agg, obs>>
syncVars == <<year, feed, scores, weatherMode, matchStore, venueStore, sp, agg, obs,
              apiCallCount, call, apiKey, quota, up, ex, vr>>

\* --------------------------------------------------------- key-value store
leagues == <<LA_LIGA, MLS>>

leagueName(id) == IF id = LA_LIGA THEN "La Liga" ELSE IF id = MLS THEN "MLS" ELSE "none"

NoResult == [totalMatches |-> 0 - 1, syncedMatches |-> 0 - 1,
             skippedMatches |-> 0 - 1, skippedSeasons |-> 0 - 1]

\* a status object none of whose fields is defined
EmptyStatus ==
    [startedAt |-> NoTime, leagues |-> <<>>, yearsToSync |-> 0,
     currentLeague |-> 0, currentLeagueName |-> "none", status |-> "none",
     completedAt |-> NoTime, error |-> "none", result |-> NoResult]

AbsentLock == [present |-> FALSE, val |-> "none", exp |-> 0]
AbsentStatus == [present |-> FALSE, val |-> EmptyStatus, exp |-> 0]

\* a set that sends the TTL as it arrives, in milliseconds
expirationTime_Millis(ttl) == IF ttl # 0 THEN ttl ELSE defaultTtl

\* UpstashRedisStore.set: the TTL arrives in milliseconds and is sent in seconds
expirationTime(ttl) == IF ttl # 0 THEN ttl \div 1000 ELSE defaultTtl

StoreSet(value, ttl) == [present |-> TRUE, val |-> value, exp |-> now + expirationTime(ttl)]

\* SyncService.isSyncRunning
isSyncRunning == lock.present /\ lock.val = "running"

\* SyncService.getSyncStatus
getSyncStatus == [isRunning |-> isSyncRunning,
                  status |-> IF status.present THEN status.val ELSE EmptyStatus,
                  hasStatus |-> status.present]

\* a status object that leaves yearsToSync out
AcquireStatus_NoYears(y) == [EmptyStatus EXCEPT !.startedAt = now, !.leagues = leagues]

\* the status object acquireSyncLock and the re-acquire of syncAllLeagues write
AcquireStatus(y) == [EmptyStatus EXCEPT !.startedAt = now, !.leagues = leagues, !.yearsToSync = y]

\* the status object written before each league
ProgressStatus(c, league, y) ==
    [EmptyStatus EXCEPT !.startedAt = IF c.startedAt # NoTime THEN c.startedAt ELSE now,
                        !.currentLeague = league,
                        !.currentLeagueName = leagueName(league),
                        !.leagues = leagues,
                        !.yearsToSync = y]

CompletedStatus(c, res) == [c EXCEPT !.status = "completed", !.completedAt = now, !.result = res]

ErrorStatus(c, msg) == [c EXCEPT !.status = "error", !.error = msg, !.completedAt = now]

BackgroundErrorStatus(msg) == [EmptyStatus EXCEPT !.status = "error", !.error = msg, !.completedAt = now]


\* ------------------------------------------------ provider, stores, seasons
EventIds == 1..MaxEvents
Undef == 0 - 1000
\* the number NaN, and a field the provider sends as null
NaN == 0 - 2000
NullField == 0 - 3000

\* a labelling that takes every other league for a calendar-year league
seasonLabel_AnyLeague(leagueId, y) ==
    IF leagueId = LA_LIGA THEN <<y, y + 1>>
    ELSE <<y>>

\* the season label of a league for a year: "Y-(Y+1)" for La Liga, "Y" for MLS,
\* kept as the numbers the label is printed from; <<>> for an unsupported league
seasonLabel(leagueId, y) ==
    IF leagueId = LA_LIGA THEN <<y, y + 1>>
    ELSE IF leagueId = MLS THEN <<y>>
    ELSE <<>>

\* the (league, season) pairs the provider may hold events for
Keys == {<<l, seasonLabel(l, y)>> : l \in {LA_LIGA, MLS}, y \in {BaseYear - 1, BaseYear}}

\* the list of the events of a set, by ascending id, each event of twice listed twice
RECURSIVE ListOf(_, _)
ListOf(S, twice) ==
    IF S = {} THEN <<>>
    ELSE LET e == CHOOSE x \in S : \A z \in S : x <= z
         IN  (IF e \in twice THEN <<e, e>> ELSE <<e>>) \o ListOf(S \ {e}, twice)

\* the provider's data: every event belongs to at most one (league, season)
Feeds ==
    {[k \in Keys |-> ListOf({e \in EventIds : home[e] = k}, twice)] :
        home \in [EventIds -> Keys \cup {<<0, <<>>>>}], twice \in SUBSET {1}}

EmptyFeed == [k \in Keys |-> <<>>]

\* eventsseason.php: the events of a season as the provider returns them
MatchData(e, leagueId, season) ==
    [idEvent |-> e, idLeague |-> leagueId, strSeason |-> season,
     intHomeScore |-> scores[e], idVenue |-> e]

Listing(leagueId, season) ==
    IF <<leagueId, season>> \in DOMAIN feed
    THEN [i \in DOMAIN feed[<<leagueId, season>>] |->
            MatchData(feed[<<leagueId, season>>][i], leagueId, season)]
    ELSE <<>>

\* searchvenues.php for the venue of an event: found with coordinates, found
\* without, or not found (null)
searchVenue(v) ==
    IF v = 1 THEN [found |-> TRUE, lat |-> 40, lon |-> 0 - 3]
    ELSE IF v = 2 THEN [found |-> TRUE, lat |-> Undef, lon |-> Undef]
    ELSE [found |-> FALSE, lat |-> Undef, lon |-> Undef]

\* the ways a call of weatherService.getWeatherAtTimestamp ends: with a
\* snapshot, with null, or by raising
WeatherModes == {"snapshot", "none", "raises"}

\* JavaScript truthiness of an optional number
Truthy(x) == x # Undef /\ x # 0 /\ x # NaN

\* a weather step whose failure leaves a marker in the document
WeatherFor_KeepsFailure(lat, lon) ==
    IF Truthy(lat) /\ Truthy(lon) THEN weatherMode ELSE "null"

\* weatherService.getWeatherAtTimestamp, called when lat && lon
\* (lines 539-554): weatherData starts null; a call that raises is caught and
\* logged, one that returns null assigns null
WeatherFor(lat, lon) ==
    IF Truthy(lat) /\ Truthy(lon) /\ weatherMode = "snapshot" THEN "snapshot" ELSE "null"

\* the match document syncPreviousMatches builds
MatchDocument(m, weather) ==
    [idEvent |-> m.idEvent, idLeague |-> m.idLeague, strSeason |-> m.strSeason,
     intHomeScore |-> m.intHomeScore, idVenue |-> m.idVenue, weatherAtMatchTime |-> weather]

\* positions of the documents of a collection that satisfy a filter on idEvent / idVenue
MatchesWith(store, id) == {i \in DOMAIN store : store[i].idEvent = id}
VenuesWith(store, id) == {i \in DOMAIN store : store[i].idVenue = id}

\* a write of the match that inserts without looking for its idEvent
UpsertMatch_Inserts(store, doc) == Append(store, doc)

\* matchModel.findOneAndUpdate({idEvent}, doc, {upsert: true})
UpsertMatch(store, doc) ==
    IF MatchesWith(store, doc.idEvent) = {}
    THEN Append(store, doc)
    ELSE LET i == CHOOSE x \in MatchesWith(store, doc.idEvent) :
                    \A z \in MatchesWith(store, doc.idEvent) : x <= z
         IN  [store EXCEPT ![i] = doc]

\* an update that writes its undefined keys over the stored values
UpsertVenue_WritesUndefined(store, id, lat, lon) ==
    IF VenuesWith(store, id) = {}
    THEN Append(store, [idVenue |-> id, lat |-> lat, lon |-> lon])
    ELSE LET i == CHOOSE x \in VenuesWith(store, id) : \A z \in VenuesWith(store, id) : x <= z
         IN  [store EXCEPT ![i] = [idVenue |-> id, lat |-> lat, lon |-> lon]]

\* venueModel.findOneAndUpdate({idVenue}, venueUpdate, {upsert: true}); keys of
\* the update that are undefined are not written
UpsertVenue(store, id, lat, lon) ==
    IF VenuesWith(store, id) = {}
    THEN Append(store, [idVenue |-> id, lat |-> lat, lon |-> lon])
    ELSE LET i == CHOOSE x \in VenuesWith(store, id) : \A z \in VenuesWith(store, id) : x <= z
         IN  [store EXCEPT ![i] = [idVenue |-> id,
                                   lat |-> IF lat = Undef THEN store[i].lat ELSE lat,
                                   lon |-> IF lon = Undef THEN store[i].lon ELSE lon]]

\* venueModel.findOne({$or: [{idVenue}, {strVenue}]}): the position of the
\* first stored venue of that id (a venue's name stands with its id), 0 if none
FindOneVenue(store, id) ==
    IF VenuesWith(store, id) = {} THEN 0
    ELSE CHOOSE x \in VenuesWith(store, id) : \A z \in VenuesWith(store, id) : x <= z

\* a count that finds no stored match of any season
CountDocuments_Zero(store, leagueId, season) == 0

\* matchModel.countDocuments({idLeague, strSeason})
CountDocuments(store, leagueId, season) ==
    Cardinality({i \in DOMAIN store : store[i].idLeague = leagueId /\ store[i].strSeason = season})

\* the counters of syncPreviousMatches, all zero
EmptyResult == [totalMatches |-> 0, syncedMatches |-> 0, skippedMatches |-> 0, skippedSeasons |-> 0]

\* an aggregation that leaves the skipped seasons of the later leagues out
AddResult_DropsSeasons(a, b) ==
    [totalMatches |-> a.totalMatches + b.totalMatches,
     syncedMatches |-> a.syncedMatches + b.syncedMatches,
     skippedMatches |-> a.skippedMatches + b.skippedMatches,
     skippedSeasons |-> a.skippedSeasons]

AddResult(a, b) ==
    [totalMatches |-> a.totalMatches + b.totalMatches,
     syncedMatches |-> a.syncedMatches + b.syncedMatches,
     skippedMatches |-> a.skippedMatches + b.skippedMatches,
     skippedSeasons |-> a.skippedSeasons + b.skippedSeasons]

\* ------------------------------------------------------------- API clients
\* the callers of the API clients: one per match enriched in parallel
Callers == EventIds

\* the value null / none
Null == 0 - 1

\* the methods of SportsService, each of which makes one provider call, and the
\* method of WeatherService
SportsOps == {"getMatchesBySeason", "searchVenue", "getUpcomingMatches"}
WeatherOp == "getWeatherAtTimestamp"

\* what an HTTP GET ends in: rejected (network error, timeout, error status),
\* answered without a body, or answered with a body whose list (events,
\* venues, data) holds items entries (0: the list is null or empty)
Responses ==
    {[ok |-> FALSE, body |-> FALSE, items |-> 0], [ok |-> TRUE, body |-> FALSE, items |-> 0]}
        \cup {[ok |-> TRUE, body |-> TRUE, items |-> n] : n \in 0..MaxEvents}

\* the answer holds at least one item
HasItems(response) == response.ok /\ response.body /\ response.items > 0

\* how a call ends: it returns a value (a list, as its length; one venue or
\* snapshot, as 1; null) or it raises
NoResponse == [ok |-> FALSE, body |-> FALSE, items |-> Null]
NoOutcome == [kind |-> "pending", value |-> Null]
Returns(v) == [kind |-> "returns", value |-> v]
Raises == [kind |-> "raises", value |-> Null]

\* SportsService.getMatchesBySeason after its GET: the events, [] when the
\* answer holds none, the error rethrown when the GET was rejected
getMatchesBySeason_Outcome(response) ==
    IF ~response.ok THEN Raises
    ELSE IF response.body /\ response.items > 0 THEN Returns(response.items)
    ELSE Returns(0)

\* a venue search that lets the error of its GET through
searchVenue_Rethrows(response) ==
    IF ~response.ok THEN Raises
    ELSE IF response.body /\ response.items > 0 THEN Returns(1)
    ELSE Returns(Null)

\* SportsService.searchVenue after its GET: venues[0], null when no venue was
\* found, null when the GET was rejected
searchVenue_Outcome(response) ==
    IF ~response.ok THEN Returns(Null)
    ELSE IF response.body /\ response.items > 0 THEN Returns(1)
    ELSE Returns(Null)

\* SportsService.getUpcomingMatches after its GET: the events, [] when the
\* answer holds none, the error rethrown when the GET was rejected
getUpcomingMatches_Outcome(response) ==
    IF ~response.ok THEN Raises
    ELSE IF response.body /\ response.items > 0 THEN Returns(response.items)
    ELSE Returns(0)

\* WeatherService.getWeatherAtTimestamp: it raises before any GET when the API
\* key is not set; after its GET it returns the snapshot built from data[0],
\* null when the answer holds no data, null when the GET was rejected
getWeatherAtTimestamp_Outcome(key, response) ==
    IF ~key THEN Raises
    ELSE IF ~response.ok THEN Returns(Null)
    ELSE IF response.body /\ response.items > 0 THEN Returns(1)
    ELSE Returns(Null)

OutcomeOf(op, response) ==
    IF op = "getMatchesBySeason" THEN getMatchesBySeason_Outcome(response)
    ELSE IF op = "searchVenue" THEN searchVenue_Outcome(response)
    ELSE IF op = "getUpcomingMatches" THEN getUpcomingMatches_Outcome(response)
    ELSE getWeatherAtTimestamp_Outcome(apiKey, response)

\* the frame of a caller that is in no call
NoCall == [op |-> "none", pc |-> "idle", wake |-> NoTime, response |-> NoResponse, out |-> NoOutcome]

\* the frame of a call of a SportsService method, at its checkRateLimit
SportsCall(op) ==
    [op |-> op, pc |-> "check", wake |-> NoTime, response |-> NoResponse, out |-> NoOutcome]

\* the frame of a call of getWeatherAtTimestamp: at its GET, or raised already
WeatherCall ==
    [op |-> WeatherOp, pc |-> IF apiKey THEN "request" ELSE "returned", wake |-> NoTime,
     response |-> NoResponse, out |-> IF apiKey THEN NoOutcome ELSE Raises]

NoQuota == [issued |-> 0, cooldowns |-> 0]

\* ------------------------------------------- extractCoordinatesFromStrMap
\* a strMap is read as a sequence of tokens: a run of digits with an optional
\* fraction of 1..3 digits, or a symbol (a sign, a comma, a space, the degree,
\* minute and second marks, a direction letter, "?q=" / "&q=", other text "x")
Num(w, f, d) == [t |-> "num", c |-> "", whole |-> w, frac |-> f, digits |-> d]
Whole(w) == Num(w, 0, 0)
Sym(c) == [t |-> "sym", c |-> c, whole |-> 0, frac |-> 0, digits |-> 0]

\* coordinates are kept in units of 1/3600000 degree (a thousandth of a second)
PerDegree == 3600000

Pow10(d) == IF d = 0 THEN 1 ELSE IF d = 1 THEN 10 ELSE IF d = 2 THEN 100 ELSE 1000

\* parseFloat of a run of digits with its fraction, in thousandths
Thousandths(tok) == tok.whole * 1000 + tok.frac * Pow10(3 - tok.digits)

\* the elements of the six regular expressions: an optionally signed number
\* ([+-]?\d+\.?\d*), a number (\d+\.?\d*), digits that open the expression
\* (\d+, which may start inside a number, after its point), digits elsewhere
\* (\d+), \s*, \s+, a literal, a captured direction [NSEW]
El(k) == [k |-> k, cs |-> {}]
Lit(cs) == [k |-> "lit", cs |-> cs]
Dir == [k |-> "dir", cs |-> {"N", "S", "E", "W"}]

decimalPattern == <<El("snum"), El("sp*"), Lit({","}), El("sp*"), El("snum")>>
urlPattern == <<Lit({"?q=", "&q="}), El("snum"), Lit({","}), El("snum")>>
decimalWithDirectionPattern ==
    <<El("num"), Lit({"deg"}), Dir, El("sp+"), El("num"), Lit({"deg"}), Dir>>
dmsDecimalMinutesPattern ==
    <<El("lead"), Lit({"deg"}), El("num"), Lit({"min"}), Dir, El("sp+"),
      El("int"), Lit({"deg"}), El("num"), Lit({"min"}), Dir>>
dmsPattern ==
    <<El("lead"), Lit({"deg"}), El("int"), Lit({"min"}), El("int"), Lit({"sec"}), Dir, El("sp+"),
      El("int"), Lit({"deg"}), El("int"), Lit({"min"}), El("int"), Lit({"sec"}), Dir>>
dmsDecimalSecondsPattern ==
    <<El("lead"), Lit({"deg"}), El("int"), Lit({"min"}), El("num"), Lit({"sec"}), Dir, El("sp+"),
      El("int"), Lit({"deg"}), El("int"), Lit({"min"}), El("num"), Lit({"sec"}), Dir>>

\* the expressions in the order the code tries them
Patterns == <<decimalPattern, urlPattern, decimalWithDirectionPattern,
              dmsDecimalMinutesPattern, dmsPattern, dmsDecimalSecondsPattern>>

\* a captured group: its parseInt, its parseFloat (thousandths), its letter
Cap(n, th, c) == [n |-> n, th |-> th, c |-> c]
NoMatch == [ok |-> FALSE, caps |-> <<>>]

\* the first position from i on that holds no space
RECURSIVE SkipSpaces(_, _)
SkipSpaces(s, i) ==
    IF i <= Len(s) /\ s[i] = Sym(" ") THEN SkipSpaces(s, i + 1) ELSE i

\* the elements of pat from the j-th on match s from its i-th token on
RECURSIVE MatchFrom(_, _, _, _)
MatchFrom(pat, j, s, i) ==
    IF j > Len(pat) THEN [ok |-> TRUE, caps |-> <<>>]
    ELSE LET e == pat[j]
             IsNum(x) == x <= Len(s) /\ s[x].t = "num"
             IsSym(x, cs) == x <= Len(s) /\ s[x].t = "sym" /\ s[x].c \in cs
             Then(caps, next) ==
                 LET rest == MatchFrom(pat, j + 1, s, next)
                 IN  IF rest.ok THEN [ok |-> TRUE, caps |-> caps \o rest.caps] ELSE NoMatch
         IN  CASE e.k = "snum" ->
                    IF IsSym(i, {"+", "-"}) /\ IsNum(i + 1)
                    THEN Then(<<Cap(0, IF s[i].c = "-" THEN 0 - Thousandths(s[i + 1])
                                       ELSE Thousandths(s[i + 1]), "")>>, i + 2)
                    ELSE IF IsNum(i) THEN Then(<<Cap(0, Thousandths(s[i]), "")>>, i + 1)
                    ELSE NoMatch
               [] e.k = "num" ->
                    IF IsNum(i) THEN Then(<<Cap(0, Thousandths(s[i]), "")>>, i + 1) ELSE NoMatch
               [] e.k = "lead" ->
                    IF IsNum(i)
                    THEN Then(<<Cap(IF s[i].digits = 0 THEN s[i].whole ELSE s[i].frac, 0, "")>>, i + 1)
                    ELSE NoMatch
               [] e.k = "int" ->
                    IF IsNum(i) /\ s[i].digits = 0 THEN Then(<<Cap(s[i].whole, 0, "")>>, i + 1)
                    ELSE NoMatch
               [] e.k = "sp*" -> Then(<<>>, SkipSpaces(s, i))
               [] e.k = "sp+" ->
                    IF IsSym(i, {" "}) THEN Then(<<>>, SkipSpaces(s, i)) ELSE NoMatch
               [] e.k = "lit" -> IF IsSym(i, e.cs) THEN Then(<<>>, i + 1) ELSE NoMatch
               [] e.k = "dir" ->
                    IF IsSym(i, e.cs) THEN Then(<<Cap(0, 0, s[i].c)>>, i + 1) ELSE NoMatch

\* strMap.match(pattern): the leftmost match, from position i on
RECURSIVE MatchAfter(_, _, _)
MatchAfter(pat, s, i) ==
    IF i > Len(s) THEN NoMatch
    ELSE IF MatchFrom(pat, 1, s, i).ok THEN MatchFrom(pat, 1, s, i)
    ELSE MatchAfter(pat, s, i + 1)

NoCoords == [found |-> FALSE, lat |-> 0, lon |-> 0]
Coords(lat, lon) == [found |-> TRUE, lat |-> lat, lon |-> lon]

\* a sign flip for either of the letters S and W, whatever the component
Negated_AnyComponent(v, direction, negative) == IF direction \in {"S", "W"} THEN 0 - v ELSE v

\* if (direction === 'S') lat = -lat; if (direction === 'W') lon = -lon
Negated(v, direction, negative) == IF direction = negative THEN 0 - v ELSE v

\* the conversion of the groups captured by the k-th expression
Convert(k, g) ==
    IF k \in {1, 2} THEN Coords(g[1].th * 3600, g[2].th * 3600)
    ELSE IF k = 3
    THEN Coords(Negated(g[1].th * 3600, g[2].c, "S"), Negated(g[3].th * 3600, g[4].c, "W"))
    ELSE IF k = 4
    THEN Coords(Negated(g[1].n * PerDegree + g[2].th * 60, g[3].c, "S"),
                Negated(g[4].n * PerDegree + g[5].th * 60, g[6].c, "W"))
    ELSE IF k = 5
    THEN Coords(Negated(g[1].n * PerDegree + g[2].n * 60000 + g[3].n * 1000, g[4].c, "S"),
                Negated(g[5].n * PerDegree + g[6].n * 60000 + g[7].n * 1000, g[8].c, "W"))
    ELSE Coords(Negated(g[1].n * PerDegree + g[2].n * 60000 + g[3].th, g[4].c, "S"),
                Negated(g[5].n * PerDegree + g[6].n * 60000 + g[7].th, g[8].c, "W"))

\* a validation that leaves the longitude out
ValidCoordinates_LatOnly(c) == c.lat >= 0 - 90 * PerDegree /\ c.lat <= 90 * PerDegree

\* lat >= -90 && lat <= 90 && lon >= -180 && lon <= 180
ValidCoordinates(c) ==
    /\ c.lat >= 0 - 90 * PerDegree /\ c.lat <= 90 * PerDegree
    /\ c.lon >= 0 - 180 * PerDegree /\ c.lon <= 180 * PerDegree

\* what the block of the k-th expression comes to: coordinates to return, or none
Yields(k, s) ==
    LET found == MatchAfter(Patterns[k], s, 1)
    IN  IF found.ok /\ ValidCoordinates(Convert(k, found.caps))
        THEN Convert(k, found.caps) ELSE NoCoords

\* an argument of the extractor: a string, or null / undefined
StrMap(text) == [given |-> TRUE, text |-> text]
NoStrMap == [given |-> FALSE, text |-> <<>>]

\* !strMap || strMap.trim() === ''
Blank(strMap) ==
    ~strMap.given \/ \A i \in DOMAIN strMap.text : strMap.text[i] = Sym(" ")

\* the strMap values tried: decimal pairs with and without spaces, map URLs,
\* degrees with a direction, degrees and minutes, degrees, minutes and seconds
\* (whole or decimal), each with values in and out of range; blank and
\* unparsable values
SP == Sym(" ")
Lats == {<<Num(30, 387, 3)>>, <<Sym("-"), Num(33, 9, 1)>>, <<Num(95, 5, 1)>>, <<Whole(0)>>}
Lons == {<<Sym("-"), Num(97, 719, 3)>>, <<Num(151, 2, 1)>>, <<Num(200, 5, 1)>>, <<Whole(0)>>}
Commas == {<<Sym(",")>>, <<Sym(","), SP>>, <<SP, Sym(","), SP>>}
DecimalMaps == {a \o sep \o b : a \in Lats, sep \in Commas, b \in Lons}
UrlMaps ==
    {pre \o a \o <<Sym(",")>> \o b :
        pre \in {<<Sym("x"), Sym("?q=")>>, <<Sym("x"), Sym("&q=")>>,
                 <<Whole(100), Sym(","), Whole(200), Sym("&q=")>>},
        a \in Lats, b \in Lons}
DirectionMaps ==
    {<<a, Sym("deg"), Sym(d1), SP, b, Sym("deg"), Sym(d2)>> :
        a \in {Num(34, 13, 3), Whole(91)}, b \in {Num(118, 285, 3), Whole(181)},
        d1 \in {"N", "S", "W"}, d2 \in {"W", "E", "S"}}
MinuteMaps ==
    {<<a, Sym("deg"), am, Sym("min"), Sym(d1), SP, b, Sym("deg"), bm, Sym("min"), Sym(d2)>> :
        a \in {Whole(29), Whole(90), Num(29, 5, 1)}, am \in {Num(45, 132, 3), Whole(0)},
        b \in {Whole(95), Whole(180)}, bm \in {Num(21, 144, 3), Whole(0)},
        d1 \in {"N", "S"}, d2 \in {"E", "W"}}
SecondMaps ==
    {<<a, Sym("deg"), Whole(ams[1]), Sym("min"), ams[2], Sym("sec"), Sym(d1), SP,
       b, Sym("deg"), Whole(bms[1]), Sym("min"), bms[2], Sym("sec"), Sym(d2)>> :
        a \in {Whole(39), Whole(90)},
        ams \in {<<28, Whole(29)>>, <<0, Whole(0)>>, <<58, Num(6, 46, 2)>>},
        b \in {Whole(0), Whole(83), Whole(180)},
        bms \in {<<21, Whole(30)>>, <<0, Whole(0)>>, <<1, Num(1, 52, 2)>>},
        d1 \in {"N", "S"}, d2 \in {"E", "W"}}
BlankMaps == {<<>>, <<SP>>, <<SP, SP>>}
OtherMaps ==
    {<<Sym("x")>>, <<Sym("x"), SP, Sym("x")>>, <<Sym("x"), Whole(5), Sym("x")>>,
     <<Whole(12), Sym("deg"), Sym("x")>>, <<Whole(12), Sym(",")>>,
     <<Whole(39), Sym("deg"), Whole(28), Sym("min"), Whole(29), Sym("sec"), Sym("N")>>}
StrMaps ==
    {NoStrMap} \cup
    {StrMap(text) : text \in DecimalMaps \cup UrlMaps \cup DirectionMaps \cup MinuteMaps
                              \cup SecondMaps \cup BlankMaps \cup OtherMaps}

\* the frame of an extractor call that has not been made
NoExtract == [pc |-> "idle", k |-> 0, strMap |-> NoStrMap, tried |-> <<>>, out |-> NoCoords]

\* ------------------------------------------------------- venue resolution
\* extractCoordinatesFromStrMap as a function: what a call returns
extractCoordinatesFromStrMap(strMap) ==
    IF Blank(strMap) THEN NoCoords
    ELSE LET valid == {k \in DOMAIN Patterns : Yields(k, strMap.text).found}
         IN  IF valid = {} THEN NoCoords
             ELSE Yields(CHOOSE k \in valid : \A z \in valid : k <= z, strMap.text)

\* the map strings of the venues the provider may answer with: absent, with
\* coordinates, with latitude 0, with coordinates out of range
VenueMaps ==
    {NoStrMap,
     StrMap(<<Num(30, 387, 3), Sym(","), Sym("-"), Num(97, 719, 3)>>),
     StrMap(<<Whole(0), Sym(","), Sym("-"), Num(97, 719, 3)>>),
     StrMap(<<Num(95, 5, 1), Sym(","), Num(200, 5, 1)>>)}

\* what the extractor returns for each of them
Extracted == [strMap \in VenueMaps |-> extractCoordinatesFromStrMap(strMap)]

\* parseFloat of a field that is not undefined: NaN for null, the number of a
\* numeric string (in 1/3600000 degree)
parseFloat(x) == IF x = NullField THEN NaN ELSE x

\* venueData.doubleLat !== undefined ? parseFloat(venueData.doubleLat)
\*   : venueData.strLatitude !== undefined ? parseFloat(venueData.strLatitude) : undefined
ExplicitField(double, str) ==
    IF double # Undef THEN parseFloat(double)
    ELSE IF str # Undef THEN parseFloat(str)
    ELSE Undef

\* a resolution that falls back only when the extractor returned nothing
ResolveCoordinates_ZeroIsFound(venueData) ==
    LET coordinates == IF venueData.strMap.given /\ venueData.strMap.text # <<>>
                       THEN Extracted[venueData.strMap] ELSE NoCoords
    IN  [extracted |-> coordinates,
         fallback |-> ~coordinates.found,
         lat |-> IF coordinates.found THEN coordinates.lat
                 ELSE ExplicitField(venueData.doubleLat, venueData.strLatitude),
         lon |-> IF coordinates.found THEN coordinates.lon
                 ELSE ExplicitField(venueData.doubleLong, venueData.strLongitude)]

\* the coordinates of a venue the search returned (lines 489-515, 63-89): the
\* extractor on a non-empty strMap, then, if (!lat || !lon), both taken from
\* the explicit fields
ResolveCoordinates(venueData) ==
    LET coordinates == IF venueData.strMap.given /\ venueData.strMap.text # <<>>
                       THEN Extracted[venueData.strMap] ELSE NoCoords
        lat == IF coordinates.found THEN coordinates.lat ELSE Undef
        lon == IF coordinates.found THEN coordinates.lon ELSE Undef
        fallback == ~Truthy(lat) \/ ~Truthy(lon)
    IN  [extracted |-> coordinates,
         fallback |-> fallback,
         lat |-> IF fallback THEN ExplicitField(venueData.doubleLat, venueData.strLatitude) ELSE lat,
         lon |-> IF fallback THEN ExplicitField(venueData.doubleLong, venueData.strLongitude) ELSE lon]

\* no venue of that name: searchVenue returns null
NoVenue ==
    [found |-> FALSE, strMap |-> NoStrMap, doubleLat |-> Undef, doubleLong |-> Undef,
     strLatitude |-> Undef, strLongitude |-> Undef]

\* the venues the provider may answer a search with: the map string absent,
\* with coordinates, with latitude 0, with coordinates out of range; the
\* explicit fields absent, null, numeric, numeric with latitude 0, numeric out
\* of range
DoublePairs ==
    {<<Undef, Undef>>, <<NullField, NullField>>,
     <<41 * PerDegree, 2 * PerDegree>>, <<0, 2 * PerDegree>>, <<95 * PerDegree, 2 * PerDegree>>}
StringPairs == {<<Undef, Undef>>, <<42 * PerDegree, 3 * PerDegree>>}
VenueAnswers ==
    {NoVenue} \cup
    {[found |-> TRUE, strMap |-> m, doubleLat |-> d[1], doubleLong |-> d[2],
      strLatitude |-> s[1], strLongitude |-> s[2]] :
        m \in VenueMaps, d \in DoublePairs, s \in StringPairs}

\* the coordinates resolved from each of these answers
Resolution == [venueData \in VenueAnswers |-> ResolveCoordinates(venueData)]

\* what a venue resolution did: the operation, the venue, the provider's
\* answer, the coordinates obtained, whether the store held usable coordinates,
\* whether a search was made, whether the venue was written, whether the
\* processing of the match raised, the calls of the weather client
NoResolution ==
    [op |-> "none", v |-> 0, answer |-> NoVenue, extracted |-> NoCoords, fallback |-> FALSE,
     lat |-> Undef, lon |-> Undef, inDb |-> FALSE, searched |-> FALSE, wrote |-> FALSE,
     failure |-> "none", raised |-> FALSE, weatherCalls |-> 0, weather |-> "null"]

\* the frame of the enrichment of one upcoming match, and of a
\* SyncService.getUpcomingMatches call that has not started
NoTask == [pc |-> "none", lat |-> Undef, lon |-> Undef, weather |-> "null"]
NoUpcoming == [pc |-> "idle", n |-> 0, task |-> [t \in Callers |-> NoTask]]

\* the frame of a syncPreviousMatches call that has not started
NoFrame ==
    [leagueId |-> 0, currentYear |-> 0, i |-> 0, m |-> 0, matches |-> <<>>, res |-> EmptyResult]

NoObs == [listed |-> <<>>, searches |-> 0, errors |-> 0, scores |-> <<>>, weatherMode |-> "none", store |-> <<>>]

\* --------------------------------------------------------------------- Init
\* the key-value store is empty and no request has arrived
InitLock ==
    /\ now = 0
    /\ lock = AbsentLock
    /\ status = AbsentStatus
    /\ pc = [r \in Requests |-> "idle"]
    /\ years = [r \in Requests |-> 0]
    /\ resp = [r \in Requests |-> 0]
    /\ acqFrom = [r \in Requests |-> "ctrl"]
    /\ busy = [r \in Requests |-> FALSE]
    /\ lg = [r \in Requests |-> 0]
    /\ cur = [r \in Requests |-> EmptyStatus]
    /\ err = [r \in Requests |-> "none"]
    /\ bgSet = [r \in Requests |-> FALSE]
    /\ bgDel = [r \in Requests |-> 0]

\* the collections are empty and no run has started
InitStores ==
    /\ year = BaseYear
    /\ scores = [e \in EventIds |-> "null"]
    /\ weatherMode = "snapshot"
    /\ matchStore = <<>>
    /\ venueStore = <<>>
    /\ sp = [r \in Requests |-> NoFrame]
    /\ agg = [r \in Requests |-> EmptyResult]
    /\ obs = [r \in Requests |-> NoObs]

\* no call of the API clients has been made
InitCalls ==
    /\ apiCallCount = 0
    /\ call = [c \in Callers |-> NoCall]
    /\ quota = NoQuota
    /\ up = NoUpcoming

\* nor of the coordinate extractor, and no venue has been resolved
InitService == InitCalls /\ ex = NoExtract /\ vr = NoResolution

Init == InitLock /\ InitStores /\ feed = EmptyFeed /\ InitService /\ apiKey = TRUE

InitSync == InitLock /\ InitStores /\ feed \in Feeds /\ InitService /\ apiKey = TRUE

\* a call of getUpcomingMatches finds the match store empty or as a sync run
\* left it, holding a match of a past season
InitUpcoming ==
    /\ InitLock /\ InitService /\ feed = EmptyFeed /\ apiKey \in BOOLEAN
    /\ year = BaseYear
    /\ scores = [e \in EventIds |-> "null"]
    /\ weatherMode = "snapshot"
    /\ matchStore \in {<<>>, <<MatchDocument(MatchData(1, LA_LIGA, seasonLabel(LA_LIGA, BaseYear - 1)),
                                             "snapshot")>>}
    /\ venueStore = <<>>
    /\ sp = [r \in Requests |-> NoFrame]
    /\ agg = [r \in Requests |-> EmptyResult]
    /\ obs = [r \in Requests |-> NoObs]

\* the API clients alone, with or without the weather API key in the environment
InitClient == InitLock /\ InitStores /\ feed = EmptyFeed /\ InitService /\ apiKey \in BOOLEAN

\* --------------------------------------------------- SyncController (POST)
\* parseInt(yearsToSyncParam, 10): the integer the leading digits spell
parseInt(param) == param.lead

\* if (yearsToSyncParam): the parameter is present and not the empty text
HasText(param) == param.given /\ ~(param.lead = NotANumber /\ param.tail = "")

\* the 1..20 validation of the parsed value
ValidYears(parsed) == parsed # NotANumber /\ parsed >= MIN_YEARS /\ parsed <= MAX_YEARS

\* r is inside the reconciliation loop of syncAllLeagues
InLoop(r) ==
    pc[r] \in {"lgGet", "lgSetLock", "lgSetStatus", "lgSync", "seasonExamine", "seasonFetch", "matchLoop"}

\* SyncController.syncPreviousMatches up to its call of acquireSyncLock
CtrlCheck(r, param) ==
    /\ pc[r] = "idle"
    /\ \/ /\ isSyncRunning
          /\ resp' = [resp EXCEPT ![r] = 409]
          /\ pc' = [pc EXCEPT ![r] = "responded"]
          /\ UNCHANGED <<years, acqFrom>>
       \/ /\ ~isSyncRunning
          /\ HasText(param)
          /\ ~ValidYears(parseInt(param))
          /\ resp' = [resp EXCEPT ![r] = 400]
          /\ pc' = [pc EXCEPT ![r] = "responded"]
          /\ UNCHANGED <<years, acqFrom>>
       \/ /\ ~isSyncRunning
          /\ ~HasText(param) \/ ValidYears(parseInt(param))
          /\ years' = [years EXCEPT ![r] = IF HasText(param) THEN parseInt(param)
                                           ELSE DEFAULT_YEARS]
          /\ acqFrom' = [acqFrom EXCEPT ![r] = "ctrl"]
          /\ pc' = [pc EXCEPT ![r] = "acqGet"]
          /\ UNCHANGED resp
    /\ busy' = [busy EXCEPT ![r] = \E q \in Requests \ {r} : InLoop(q)]
    /\ UNCHANGED <<now, lock, status, lg, cur, err, bgSet, bgDel>>
    /\ UNCHANGED syncVars

\* ------------------------------------------------ SyncService.acquireSyncLock
\* an exception leaving acquireSyncLock: the controller answers 500; in the
\* background caller the promise of syncAllLeaguesInBackground rejects
AcquireThrows(r) ==
    IF acqFrom[r] = "ctrl"
    THEN /\ resp' = [resp EXCEPT ![r] = 500]
         /\ pc' = [pc EXCEPT ![r] = "responded"]
    ELSE /\ pc' = [pc EXCEPT ![r] = "done"]
         /\ UNCHANGED resp

\* an acquireSyncLock that does not look at the lock before it writes
AcqGet_NoCheck(r) ==
    /\ pc[r] = "acqGet"
    /\ pc' = [pc EXCEPT ![r] = "acqSetLock"]
    /\ UNCHANGED <<now, lock, status, years, resp, acqFrom, busy, lg, cur, err, bgSet, bgDel>>
    /\ UNCHANGED syncVars

\* acquireSyncLock: const isRunning = await this.isSyncRunning()
AcqGet(r) ==
    /\ pc[r] = "acqGet"
    /\ IF isSyncRunning
       THEN IF acqFrom[r] = "ctrl"
            THEN /\ resp' = [resp EXCEPT ![r] = 409]
                 /\ pc' = [pc EXCEPT ![r] = "responded"]
            ELSE /\ pc' = [pc EXCEPT ![r] = "done"]
                 /\ UNCHANGED resp
       ELSE /\ pc' = [pc EXCEPT ![r] = "acqSetLock"]
            /\ UNCHANGED resp
    /\ UNCHANGED <<now, lock, status, years, acqFrom, busy, lg, cur, err, bgSet, bgDel>>
    /\ UNCHANGED syncVars

\* setSyncLock(true, status): cacheManager.set(SYNC_LOCK_KEY, 'running', 7200000)
AcqSetLock(r, ok) ==
    /\ pc[r] = "acqSetLock"
    /\ IF ok
       THEN /\ lock' = StoreSet("running", LOCK_TTL_MS)
            /\ pc' = [pc EXCEPT ![r] = "acqSetStatus"]
            /\ UNCHANGED resp
       ELSE /\ AcquireThrows(r)
            /\ UNCHANGED lock
    /\ UNCHANGED <<now, status, years, acqFrom, busy, lg, cur, err, bgSet, bgDel>>
    /\ UNCHANGED syncVars

\* setSyncLock(true, status): cacheManager.set(SYNC_STATUS_KEY, status, 7200000);
\* acquireSyncLock then returns true: the controller starts the background
\* run without awaiting it and answers 'started'
AcqSetStatus(r, ok) ==
    /\ pc[r] = "acqSetStatus"
    /\ IF ok
       THEN /\ status' = StoreSet(AcquireStatus(years[r]), LOCK_TTL_MS)
            /\ IF acqFrom[r] = "ctrl"
               THEN /\ resp' = [resp EXCEPT ![r] = 200]
                    /\ pc' = [pc EXCEPT ![r] = "bgCheck"]
               ELSE /\ pc' = [pc EXCEPT ![r] = "salCheck"]
                    /\ UNCHANGED resp
       ELSE /\ AcquireThrows(r)
            /\ UNCHANGED status
    /\ UNCHANGED <<now, lock, years, acqFrom, busy, lg, cur, err, bgSet, bgDel>>
    /\ UNCHANGED syncVars

\* ------------------------------------- SyncService.syncAllLeaguesInBackground
\* the double check of the lock before the run is started
BgCheck(r) ==
    /\ pc[r] = "bgCheck"
    /\ IF isSyncRunning
       THEN /\ pc' = [pc EXCEPT ![r] = "salCheck"]
            /\ UNCHANGED acqFrom
       ELSE /\ pc' = [pc EXCEPT ![r] = "acqGet"]
            /\ acqFrom' = [acqFrom EXCEPT ![r] = "bg"]
    /\ UNCHANGED <<now, lock, status, years, resp, busy, lg, cur, err, bgSet, bgDel>>
    /\ UNCHANGED syncVars

\* syncAllLeagues rejected: the .catch handler starts its status write and its
\* setSyncLock(false), neither of them awaited
EnterBgCatch(r, msg) ==
    /\ pc' = [pc EXCEPT ![r] = "bgCatch"]
    /\ err' = [err EXCEPT ![r] = msg]
    /\ bgSet' = [bgSet EXCEPT ![r] = TRUE]
    /\ bgDel' = [bgDel EXCEPT ![r] = 0]

\* the handler is finished once both of its operations have completed
BgCatchPc(r, setPending, delDone) == IF ~setPending /\ delDone = 2 THEN "done" ELSE "bgCatch"

\* .catch handler: this.cacheManager.set(SYNC_STATUS_KEY, {status: 'error', ...}, 3600000)
BgSet(r, ok) ==
    /\ pc[r] = "bgCatch"
    /\ bgSet[r]
    /\ IF ok
       THEN status' = StoreSet(BackgroundErrorStatus(err[r]), TERMINAL_TTL_MS)
       ELSE UNCHANGED status
    /\ bgSet' = [bgSet EXCEPT ![r] = FALSE]
    /\ pc' = [pc EXCEPT ![r] = BgCatchPc(r, FALSE, bgDel[r])]
    /\ UNCHANGED <<now, lock, years, resp, acqFrom, busy, lg, cur, err, bgDel>>
    /\ UNCHANGED syncVars

\* .catch handler: setSyncLock(false), cacheManager.del(SYNC_LOCK_KEY)
BgDelLock(r) ==
    /\ pc[r] = "bgCatch"
    /\ bgDel[r] = 0
    /\ lock' = AbsentLock
    /\ bgDel' = [bgDel EXCEPT ![r] = 1]
    /\ UNCHANGED <<now, status, pc, years, resp, acqFrom, busy, lg, cur, err, bgSet>>
    /\ UNCHANGED syncVars

\* .catch handler: setSyncLock(false), cacheManager.del(SYNC_STATUS_KEY)
BgDelStatus(r) ==
    /\ pc[r] = "bgCatch"
    /\ bgDel[r] = 1
    /\ status' = AbsentStatus
    /\ bgDel' = [bgDel EXCEPT ![r] = 2]
    /\ pc' = [pc EXCEPT ![r] = BgCatchPc(r, bgSet[r], 2)]
    /\ UNCHANGED <<now, lock, years, resp, acqFrom, busy, lg, cur, err, bgSet>>
    /\ UNCHANGED syncVars

\* ------------------------------------------------ SyncService.syncAllLeagues
\* an exception raised inside the try block: control passes to the catch block
EnterCatch(r, msg) ==
    /\ pc' = [pc EXCEPT ![r] = "catchGet"]
    /\ err' = [err EXCEPT ![r] = msg]

\* if (await this.isSyncRunning())
SalCheck(r) ==
    /\ pc[r] = "salCheck"
    /\ pc' = [pc EXCEPT ![r] = IF isSyncRunning THEN "salVerify" ELSE "salSetLock"]
    /\ UNCHANGED <<now, lock, status, years, resp, acqFrom, busy, lg, cur, err, bgSet, bgDel>>
    /\ UNCHANGED syncVars

\* the ownership check: status && status.yearsToSync === yearsToSync
OwnsLock(r) == status.present /\ status.val.yearsToSync = years[r]

\* lock found: verify ownership through the status, raise when it is another's
SalVerify(r) ==
    /\ pc[r] = "salVerify"
    /\ IF OwnsLock(r)
       THEN /\ pc' = [pc EXCEPT ![r] = "lgGet"]
            /\ lg' = [lg EXCEPT ![r] = 1]
            /\ UNCHANGED <<err, bgSet, bgDel>>
       ELSE /\ EnterBgCatch(r, "already running")
            /\ UNCHANGED lg
    /\ UNCHANGED <<now, lock, status, years, resp, acqFrom, busy, cur>>
    /\ UNCHANGED syncVars

\* lock not found: re-acquire, setSyncLock(true, ...) writes the lock key
SalSetLock(r, ok) ==
    /\ pc[r] = "salSetLock"
    /\ IF ok
       THEN /\ lock' = StoreSet("running", LOCK_TTL_MS)
            /\ pc' = [pc EXCEPT ![r] = "salSetStatus"]
            /\ UNCHANGED <<err, bgSet, bgDel>>
       ELSE /\ EnterBgCatch(r, "store write failed")
            /\ UNCHANGED lock
    /\ UNCHANGED <<now, status, years, resp, acqFrom, busy, lg, cur>>
    /\ UNCHANGED syncVars

\* re-acquire: setSyncLock(true, ...) writes the status key, the try block is entered
SalSetStatus(r, ok) ==
    /\ pc[r] = "salSetStatus"
    /\ IF ok
       THEN /\ status' = StoreSet(AcquireStatus(years[r]), LOCK_TTL_MS)
            /\ pc' = [pc EXCEPT ![r] = "lgGet"]
            /\ lg' = [lg EXCEPT ![r] = 1]
            /\ UNCHANGED <<err, bgSet, bgDel>>
       ELSE /\ EnterBgCatch(r, "store write failed")
            /\ UNCHANGED <<status, lg>>
    /\ UNCHANGED <<now, lock, years, resp, acqFrom, busy, cur>>
    /\ UNCHANGED syncVars

\* for (const league of leagues): currentStatus = await cacheManager.get(STATUS);
\* of this currentStatus the loop reads startedAt only, which is what is kept
LgGet(r) ==
    /\ pc[r] = "lgGet"
    /\ cur' = [cur EXCEPT ![r] = [EmptyStatus EXCEPT !.startedAt = getSyncStatus.status.startedAt]]
    /\ pc' = [pc EXCEPT ![r] = "lgSetLock"]
    /\ UNCHANGED <<now, lock, status, years, resp, acqFrom, busy, lg, err, bgSet, bgDel>>
    /\ UNCHANGED syncVars

\* progress update, setSyncLock(true, ...): the lock key is written again
LgSetLock(r, ok) ==
    /\ pc[r] = "lgSetLock"
    /\ IF ok
       THEN /\ lock' = StoreSet("running", LOCK_TTL_MS)
            /\ pc' = [pc EXCEPT ![r] = "lgSetStatus"]
            /\ UNCHANGED <<err, cur>>
       ELSE /\ EnterCatch(r, "store write failed")
            /\ cur' = [cur EXCEPT ![r] = EmptyStatus]
            /\ UNCHANGED lock
    /\ UNCHANGED <<now, status, years, resp, acqFrom, busy, lg, bgSet, bgDel>>
    /\ UNCHANGED syncVars

\* progress update, setSyncLock(true, ...): the status key with currentLeague
LgSetStatus(r, ok) ==
    /\ pc[r] = "lgSetStatus"
    /\ IF ok
       THEN /\ status' = StoreSet(ProgressStatus(cur[r], leagues[lg[r]], years[r]), LOCK_TTL_MS)
            /\ pc' = [pc EXCEPT ![r] = "lgSync"]
            /\ UNCHANGED err
       ELSE /\ EnterCatch(r, "store write failed")
            /\ UNCHANGED status
    /\ cur' = [cur EXCEPT ![r] = EmptyStatus]
    /\ UNCHANGED <<now, lock, years, resp, acqFrom, busy, lg, bgSet, bgDel>>
    /\ UNCHANGED syncVars

\* the league's result has been added: next league, or the final status
AfterLeague(r) ==
    IF lg[r] < Len(leagues)
    THEN /\ lg' = [lg EXCEPT ![r] = lg[r] + 1]
         /\ pc' = [pc EXCEPT ![r] = "lgGet"]
    ELSE /\ pc' = [pc EXCEPT ![r] = "finalGet"]
         /\ UNCHANGED lg

\* await this.syncPreviousMatches(league.id, yearsToSync), taken as one step
\* against a provider that lists no match: it returns, or a season listing
\* fails and the failure propagates. It accesses no key of the key-value store.
LgSyncAtomic(r) ==
    /\ pc[r] = "lgSync"
    /\ \/ /\ AfterLeague(r)
          /\ UNCHANGED err
       \/ /\ EnterCatch(r, "season listing failed")
          /\ UNCHANGED lg
    /\ UNCHANGED <<now, lock, status, years, resp, acqFrom, busy, cur, bgSet, bgDel>>
    /\ UNCHANGED syncVars

\* -------------------------------------------- SyncService.syncPreviousMatches
\* the call starts: const currentYear = new Date().getFullYear(), counters at 0
SyncBegin(r) ==
    /\ pc[r] = "lgSync"
    /\ pc' = [pc EXCEPT ![r] = "seasonExamine"]
    /\ sp' = [sp EXCEPT ![r] = [NoFrame EXCEPT !.leagueId = leagues[lg[r]], !.currentYear = year]]
    /\ obs' = [obs EXCEPT ![r] = IF lg[r] = 1
                                 THEN [@ EXCEPT !.scores = scores, !.weatherMode = weatherMode]
                                 ELSE @]
    /\ UNCHANGED <<now, lock, status, years, resp, acqFrom, busy, lg, cur, err, bgSet, bgDel>>
    /\ UNCHANGED <<year, feed, scores, weatherMode, matchStore, venueStore, agg>>
    /\ UNCHANGED clientVars

\* a loop over the seasons that starts with the oldest
SeasonYear_OldestFirst(r) == sp[r].currentYear - years[r] + sp[r].i

\* the season of iteration i of the call of run r
SeasonYear(r) == sp[r].currentYear - sp[r].i
Season(r) == seasonLabel(sp[r].leagueId, SeasonYear(r))

\* a skip rule that leaves the current year out
SkipsSeason_AnyYear(r) == CountDocuments(matchStore, sp[r].leagueId, Season(r)) > 0

\* a rule that skips no season
SkipsSeason_Never(r) == FALSE

\* the skip rule: not the current year, and the store holds a match of the season
SkipsSeason(r) ==
    /\ SeasonYear(r) # sp[r].currentYear
    /\ CountDocuments(matchStore, sp[r].leagueId, Season(r)) > 0

\* an exception leaves syncPreviousMatches: into the catch of syncAllLeagues,
\* or, the function called on its own (lg[r] = 0), to its caller
Propagate(r, msg) ==
    IF lg[r] = 0
    THEN pc' = [pc EXCEPT ![r] = "raised"] /\ err' = [err EXCEPT ![r] = msg]
    ELSE EnterCatch(r, msg)

\* for (let i = 0; i <= yearsToSync; i++): the season is labelled, or the
\* league is unsupported and the call throws (line 449); its stored matches
\* are counted, and it is skipped or goes on to the provider call
SeasonExamine(r) ==
    /\ pc[r] = "seasonExamine"
    /\ sp[r].i <= years[r]
    /\ IF Season(r) = <<>>
       THEN /\ Propagate(r, "unsupported league")
            /\ sp' = [sp EXCEPT ![r] = NoFrame]
       ELSE IF SkipsSeason(r)
       THEN /\ sp' = [sp EXCEPT ![r].i = @ + 1,
                                ![r].res.skippedSeasons = @ + 1,
                                ![r].res.totalMatches =
                                    @ + CountDocuments(matchStore, sp[r].leagueId, Season(r))]
            /\ UNCHANGED <<pc, err>>
       ELSE /\ pc' = [pc EXCEPT ![r] = "seasonFetch"]
            /\ UNCHANGED <<sp, err>>
    /\ UNCHANGED <<now, lock, status, years, resp, acqFrom, busy, lg, cur, bgSet, bgDel>>
    /\ UNCHANGED <<year, feed, scores, weatherMode, matchStore, venueStore, agg, obs>>
    /\ UNCHANGED clientVars

\* the failures injected so far into the season-by-season reconciliation
RECURSIVE SumErrors(_)
SumErrors(S) ==
    IF S = {} THEN 0
    ELSE LET r == CHOOSE x \in S : TRUE
         IN  obs[r].errors + (IF err[r] = "season listing failed" THEN 1 ELSE 0)
                + SumErrors(S \ {r})

FaultsLeft == SumErrors(Requests) < MaxFaults

\* sportsService.getMatchesBySeason(leagueId, season): the list, or the failure
\* that propagates out of syncPreviousMatches into the catch of syncAllLeagues
SeasonFetch(r) ==
    /\ pc[r] = "seasonFetch"
    /\ obs' = [obs EXCEPT ![r].listed = Append(@, <<sp[r].leagueId, Season(r)>>)]
    /\ \/ /\ sp' = [sp EXCEPT ![r].matches = Listing(sp[r].leagueId, Season(r)),
                              ![r].m = 1,
                              ![r].res.totalMatches = @ + Len(Listing(sp[r].leagueId, Season(r)))]
          /\ pc' = [pc EXCEPT ![r] = "matchLoop"]
          /\ UNCHANGED err
       \/ /\ FaultsLeft
          /\ Propagate(r, "season listing failed")
          /\ sp' = [sp EXCEPT ![r] = NoFrame]
    /\ UNCHANGED <<now, lock, status, years, resp, acqFrom, busy, lg, cur, bgSet, bgDel>>
    /\ UNCHANGED <<year, feed, scores, weatherMode, matchStore, venueStore, agg>>
    /\ UNCHANGED clientVars

\* the ways the processing of one match may raise: the venue upsert, the
\* findOne of the existing match, the upsert of the match
Failures == {"none", "venue upsert", "match lookup", "match upsert"}

\* a loop whose try/catch encloses the for: the first failure ends the season
ProcessMatch_Aborts(r, failure) ==
    /\ pc[r] = "matchLoop"
    /\ sp[r].m <= Len(sp[r].matches)
    /\ LET matchData == sp[r].matches[sp[r].m]
           venueData == searchVenue(matchData.idVenue)
           weatherData == WeatherFor(venueData.lat, venueData.lon)
           existingMatch == MatchesWith(matchStore, matchData.idEvent) # {}
       IN  /\ failure # "none" => FaultsLeft
           /\ failure = "venue upsert" => venueData.found
           /\ venueStore' = IF venueData.found /\ failure # "venue upsert"
                            THEN UpsertVenue(venueStore, matchData.idVenue, venueData.lat, venueData.lon)
                            ELSE venueStore
           /\ matchStore' = IF failure = "none"
                            THEN UpsertMatch(matchStore, MatchDocument(matchData, weatherData))
                            ELSE matchStore
           /\ sp' = [sp EXCEPT ![r].m = IF failure = "none" THEN @ + 1 ELSE Len(sp[r].matches) + 1,
                               ![r].res.syncedMatches =
                                   IF failure = "none" /\ ~existingMatch THEN @ + 1 ELSE @,
                               ![r].res.skippedMatches =
                                   IF failure = "none" /\ ~existingMatch THEN @ ELSE @ + 1]
           /\ obs' = [obs EXCEPT ![r].errors = IF failure = "none" THEN @ ELSE @ + 1,
                                 ![r].searches = @ + 1]
    /\ UNCHANGED <<now, lock, status, pc, years, resp, acqFrom, busy, lg, cur, err, bgSet, bgDel>>
    /\ UNCHANGED <<year, feed, scores, weatherMode, agg>>
    /\ UNCHANGED clientVars

\* for (const matchData of matches): venue search, venue upsert, weather,
\* existence lookup, upsert, counters; a failure is logged and counted as skipped
ProcessMatch(r, failure) ==
    /\ pc[r] = "matchLoop"
    /\ sp[r].m <= Len(sp[r].matches)
    /\ LET matchData == sp[r].matches[sp[r].m]
           venueData == searchVenue(matchData.idVenue)
           weatherData == WeatherFor(venueData.lat, venueData.lon)
           existingMatch == MatchesWith(matchStore, matchData.idEvent) # {}
       IN  /\ failure # "none" => FaultsLeft
           /\ failure = "venue upsert" => venueData.found
           /\ venueStore' = IF venueData.found /\ failure # "venue upsert"
                            THEN UpsertVenue(venueStore, matchData.idVenue, venueData.lat, venueData.lon)
                            ELSE venueStore
           /\ matchStore' = IF failure = "none"
                            THEN UpsertMatch(matchStore, MatchDocument(matchData, weatherData))
                            ELSE matchStore
           /\ sp' = [sp EXCEPT ![r].m = @ + 1,
                               ![r].res.syncedMatches =
                                   IF failure = "none" /\ ~existingMatch THEN @ + 1 ELSE @,
                               ![r].res.skippedMatches =
                                   IF failure = "none" /\ ~existingMatch THEN @ ELSE @ + 1]
           /\ obs' = [obs EXCEPT ![r].errors = IF failure = "none" THEN @ ELSE @ + 1,
                                 ![r].searches = @ + 1]
    /\ UNCHANGED <<now, lock, status, pc, years, resp, acqFrom, busy, lg, cur, err, bgSet, bgDel>>
    /\ UNCHANGED <<year, feed, scores, weatherMode, agg>>
    /\ UNCHANGED clientVars

\* the matches of the season are processed: next iteration
SeasonDone(r) ==
    /\ pc[r] = "matchLoop"
    /\ sp[r].m > Len(sp[r].matches)
    /\ sp' = [sp EXCEPT ![r].i = @ + 1, ![r].m = 0, ![r].matches = <<>>]
    /\ pc' = [pc EXCEPT ![r] = "seasonExamine"]
    /\ UNCHANGED <<now, lock, status, years, resp, acqFrom, busy, lg, cur, err, bgSet, bgDel>>
    /\ UNCHANGED <<year, feed, scores, weatherMode, matchStore, venueStore, agg, obs>>
    /\ UNCHANGED clientVars

\* syncPreviousMatches returns its counters; syncAllLeagues adds them up
SyncReturn(r) ==
    /\ pc[r] = "seasonExamine"
    /\ sp[r].i > years[r]
    /\ agg' = [agg EXCEPT ![r] = AddResult(@, sp[r].res)]
    /\ obs' = [obs EXCEPT ![r].store = matchStore]
    /\ sp' = [sp EXCEPT ![r] = NoFrame]
    /\ IF lg[r] = 0
       THEN pc' = [pc EXCEPT ![r] = "returned"] /\ UNCHANGED lg
       ELSE AfterLeague(r)
    /\ UNCHANGED <<now, lock, status, years, resp, acqFrom, busy, cur, err, bgSet, bgDel>>
    /\ UNCHANGED <<year, feed, scores, weatherMode, matchStore, venueStore>>
    /\ UNCHANGED clientVars

\* ---------------------------------------------------------------- provider
Settled(r) == pc[r] \in {"responded", "done"}

\* a run is over, another has not been requested yet, none is under way
BetweenRuns ==
    /\ \E r \in Requests : pc[r] = "done"
    /\ \E r \in Requests : pc[r] = "idle"
    /\ \A r \in Requests : pc[r] = "idle" \/ Settled(r)

\* between two runs an event is played: its score is no longer null
ScoreChanges(e) ==
    /\ BetweenRuns
    /\ scores[e] = "null"
    /\ scores' = [scores EXCEPT ![e] = "1"]
    /\ UNCHANGED <<now, lock, status, pc, years, resp, acqFrom, busy, lg, cur, err, bgSet, bgDel>>
    /\ UNCHANGED <<year, feed, weatherMode, matchStore, venueStore, sp, agg, obs>>
    /\ UNCHANGED clientVars

\* between two runs the weather provider goes down or comes back
WeatherChanges ==
    /\ BetweenRuns
    /\ \E mode \in WeatherModes \ {weatherMode} : weatherMode' = mode
    /\ UNCHANGED <<now, lock, status, pc, years, resp, acqFrom, busy, lg, cur, err, bgSet, bgDel>>
    /\ UNCHANGED <<year, feed, scores, matchStore, venueStore, sp, agg, obs>>
    /\ UNCHANGED clientVars

\* const currentStatus = await this.cacheManager.get(SYNC_STATUS_KEY) (line 378)
FinalGet(r) ==
    /\ pc[r] = "finalGet"
    /\ cur' = [cur EXCEPT ![r] = getSyncStatus.status]
    /\ pc' = [pc EXCEPT ![r] = "finalSet"]
    /\ UNCHANGED <<now, lock, status, years, resp, acqFrom, busy, lg, err, bgSet, bgDel>>
    /\ UNCHANGED syncVars

\* the 'completed' status with the aggregate result, kept for one hour
FinalSet(r, ok) ==
    /\ pc[r] = "finalSet"
    /\ IF ok
       THEN /\ status' = StoreSet(CompletedStatus(cur[r], agg[r]), TERMINAL_TTL_MS)
            /\ pc' = [pc EXCEPT ![r] = "finDelLock"]
            /\ UNCHANGED err
       ELSE /\ EnterCatch(r, "store write failed")
            /\ UNCHANGED status
    /\ cur' = [cur EXCEPT ![r] = EmptyStatus]
    /\ UNCHANGED <<now, lock, years, resp, acqFrom, busy, lg, bgSet, bgDel>>
    /\ UNCHANGED syncVars

\* catch: const currentStatus = await this.cacheManager.get(SYNC_STATUS_KEY)
CatchGet(r) ==
    /\ pc[r] = "catchGet"
    /\ cur' = [cur EXCEPT ![r] = getSyncStatus.status]
    /\ pc' = [pc EXCEPT ![r] = "catchSet"]
    /\ UNCHANGED <<now, lock, status, years, resp, acqFrom, busy, lg, err, bgSet, bgDel>>
    /\ UNCHANGED syncVars

\* catch: the 'error' status, kept for one hour; the error is thrown again
\* (a failing write replaces it by its own error); finally runs next
CatchSet(r, ok) ==
    /\ pc[r] = "catchSet"
    /\ IF ok
       THEN /\ status' = StoreSet(ErrorStatus(cur[r], err[r]), TERMINAL_TTL_MS)
            /\ UNCHANGED err
       ELSE /\ err' = [err EXCEPT ![r] = "store write failed"]
            /\ UNCHANGED status
    /\ pc' = [pc EXCEPT ![r] = "finDelLock"]
    /\ cur' = [cur EXCEPT ![r] = EmptyStatus]
    /\ UNCHANGED <<now, lock, years, resp, acqFrom, busy, lg, bgSet, bgDel>>
    /\ UNCHANGED syncVars

\* a finally block that leaves the lock key in place
FinDelLock_KeepsLock(r) ==
    /\ pc[r] = "finDelLock"
    /\ pc' = [pc EXCEPT ![r] = "finDelStatus"]
    /\ UNCHANGED <<now, lock, status, years, resp, acqFrom, busy, lg, cur, err, bgSet, bgDel>>
    /\ UNCHANGED syncVars

\* finally: setSyncLock(false), cacheManager.del(SYNC_LOCK_KEY)
FinDelLock(r) ==
    /\ pc[r] = "finDelLock"
    /\ lock' = AbsentLock
    /\ pc' = [pc EXCEPT ![r] = "finDelStatus"]
    /\ UNCHANGED <<now, status, years, resp, acqFrom, busy, lg, cur, err, bgSet, bgDel>>
    /\ UNCHANGED syncVars

\* a run whose end is answered to the request that started it
FinDelStatus_Answers(r) ==
    /\ pc[r] = "finDelStatus"
    /\ status' = AbsentStatus
    /\ resp' = [resp EXCEPT ![r] = IF err[r] = "none" THEN 200 ELSE 500]
    /\ IF err[r] = "none"
       THEN /\ pc' = [pc EXCEPT ![r] = "done"]
            /\ UNCHANGED <<err, bgSet, bgDel>>
       ELSE EnterBgCatch(r, err[r])
    /\ UNCHANGED <<now, lock, years, acqFrom, busy, lg, cur>>
    /\ UNCHANGED syncVars

\* finally: setSyncLock(false), cacheManager.del(SYNC_STATUS_KEY); the run
\* then returns its result, or rejects into the background .catch handler
FinDelStatus(r) ==
    /\ pc[r] = "finDelStatus"
    /\ status' = AbsentStatus
    /\ IF err[r] = "none"
       THEN /\ pc' = [pc EXCEPT ![r] = "done"]
            /\ UNCHANGED <<err, bgSet, bgDel>>
       ELSE EnterBgCatch(r, err[r])
    /\ UNCHANGED <<now, lock, years, resp, acqFrom, busy, lg, cur>>
    /\ UNCHANGED syncVars

\* ------------------------------------------------------------------- time
\* a key whose expiry time has been reached is no longer in the store
Expire(entry, absent, t) == IF entry.present /\ entry.exp <= t THEN absent ELSE entry

\* one hour passes
Tick ==
    /\ now < MaxTicks * TickSeconds
    /\ now' = now + TickSeconds
    /\ lock' = Expire(lock, AbsentLock, now + TickSeconds)
    /\ status' = Expire(status, AbsentStatus, now + TickSeconds)
    /\ UNCHANGED <<pc, years, resp, acqFrom, busy, lg, cur, err, bgSet, bgDel>>
    /\ UNCHANGED syncVars

\* ------------------------------------------------------------ SportsService
\* a caller that is in no call invokes a method of SportsService, which starts
\* with await this.checkRateLimit()
ClientCall(c, op) ==
    /\ call[c].pc = "idle"
    /\ quota.cooldowns < MaxCooldowns
    /\ call' = [call EXCEPT ![c] = SportsCall(op)]
    /\ UNCHANGED <<now, lock, status, runVars, reconcileVars, apiCallCount, apiKey, quota, up>>

\* a check that lets one more call through before it sleeps
CheckRateLimit_Late(c) ==
    /\ call[c].pc = "check"
    /\ IF apiCallCount > RATE_LIMIT
       THEN call' = [call EXCEPT ![c].pc = "sleep", ![c].wake = now + WAIT_TIME_MS \div 1000]
       ELSE call' = [call EXCEPT ![c].pc = "count"]
    /\ UNCHANGED <<now, lock, status, runVars, reconcileVars, apiCallCount, apiKey, quota, up>>

\* checkRateLimit: with the limit reached it sleeps WAIT_TIME_MS, otherwise it
\* returns at once
CheckRateLimit(c) ==
    /\ call[c].pc = "check"
    /\ IF apiCallCount >= RATE_LIMIT
       THEN call' = [call EXCEPT ![c].pc = "sleep", ![c].wake = now + WAIT_TIME_MS \div 1000]
       ELSE call' = [call EXCEPT ![c].pc = "count"]
    /\ UNCHANGED <<now, lock, status, runVars, reconcileVars, apiCallCount, apiKey, quota, up>>

\* the time of a cooldown passes while a caller sleeps
Cooldown ==
    /\ \E c \in Callers : call[c].pc = "sleep" /\ call[c].wake > now
    /\ now' = now + WAIT_TIME_MS \div 1000
    /\ lock' = Expire(lock, AbsentLock, now + WAIT_TIME_MS \div 1000)
    /\ status' = Expire(status, AbsentStatus, now + WAIT_TIME_MS \div 1000)
    /\ UNCHANGED <<runVars, reconcileVars, clientVars>>

\* checkRateLimit after its sleep: the counter is reset
SleepDone(c) ==
    /\ call[c].pc = "sleep"
    /\ now >= call[c].wake
    /\ apiCallCount' = 0
    /\ call' = [call EXCEPT ![c].pc = "count", ![c].wake = NoTime]
    /\ quota' = [issued |-> 0, cooldowns |-> quota.cooldowns + 1]
    /\ UNCHANGED <<now, lock, status, runVars, reconcileVars, apiKey, up>>

\* this.apiCallCount++ and the GET sent to the provider
Count(c) ==
    /\ call[c].pc = "count"
    /\ apiCallCount' = apiCallCount + 1
    /\ call' = [call EXCEPT ![c].pc = "request"]
    /\ quota' = [quota EXCEPT !.issued = @ + 1]
    /\ UNCHANGED <<now, lock, status, runVars, reconcileVars, apiKey, up>>

\* the GET of a call settles and the method returns or raises
Respond(c, response) ==
    /\ call[c].pc = "request"
    /\ call' = [call EXCEPT ![c].pc = "returned", ![c].response = response,
                             ![c].out = OutcomeOf(call[c].op, response)]
    /\ UNCHANGED <<now, lock, status, runVars, reconcileVars, apiCallCount, apiKey, quota, up>>

\* a caller that is in no call invokes weatherService.getWeatherAtTimestamp
WeatherBegin(c) ==
    /\ call[c].pc = "idle"
    /\ call' = [call EXCEPT ![c] = WeatherCall]
    /\ UNCHANGED <<now, lock, status, runVars, reconcileVars, apiCallCount, apiKey, quota, up>>

\* the caller takes the outcome of its call
Resume(c) ==
    /\ call[c].pc = "returned"
    /\ call' = [call EXCEPT ![c] = NoCall]
    /\ UNCHANGED <<now, lock, status, runVars, reconcileVars, apiCallCount, apiKey, quota, up>>

\* ------------------------------------- SyncService.getUpcomingMatches (GET)
\* the enrichment of a match has ended, with or without a snapshot
TaskDone(t, weather) == [up EXCEPT !.task[t].pc = "done", !.task[t].weather = weather]

\* a request arrives: await this.sportsService.getUpcomingMatches(leagueId)
UpBegin ==
    /\ up.pc \in {"idle", "returned", "raised"}
    /\ \A c \in Callers : call[c].pc = "idle"
    /\ quota.cooldowns < MaxCooldowns
    /\ up' = [NoUpcoming EXCEPT !.pc = "listing"]
    /\ call' = [call EXCEPT ![1] = SportsCall("getUpcomingMatches")]
    /\ UNCHANGED <<now, lock, status, runVars, reconcileVars, apiCallCount, apiKey, quota>>

\* the listing has ended: its error propagates, or the enrichment of every
\* match starts (matches.map) with the lookup of its venue
UpListed ==
    /\ up.pc = "listing"
    /\ call[1].pc = "returned"
    /\ IF call[1].out.kind = "raises"
       THEN up' = [up EXCEPT !.pc = "raised"]
       ELSE up' = [pc |-> "enrich", n |-> call[1].out.value,
                   task |-> [t \in Callers |->
                                IF t <= call[1].out.value
                                THEN [NoTask EXCEPT !.pc = "findOne"] ELSE NoTask]]
    /\ call' = [call EXCEPT ![1] = NoCall]
    /\ UNCHANGED <<now, lock, status, runVars, reconcileVars, apiCallCount, apiKey, quota>>

\* a lookup whose failure is not caught and rejects the Promise.all
TaskFindOne_Propagates(t, raises) ==
    /\ up.pc = "enrich"
    /\ up.task[t].pc = "findOne"
    /\ LET i == FindOneVenue(venueStore, t)
       IN  IF raises
           THEN up' = [up EXCEPT !.pc = "raised"] /\ UNCHANGED call
           ELSE IF i # 0 /\ Truthy(venueStore[i].lat) /\ Truthy(venueStore[i].lon)
           THEN /\ up' = [up EXCEPT !.task[t] = [pc |-> "weather", lat |-> venueStore[i].lat,
                                                  lon |-> venueStore[i].lon, weather |-> "null"]]
                /\ call' = [call EXCEPT ![t] = WeatherCall]
           ELSE /\ up' = [up EXCEPT !.task[t].pc = "search"]
                /\ call' = [call EXCEPT ![t] = SportsCall("searchVenue")]
    /\ UNCHANGED <<now, lock, status, runVars, reconcileVars, apiCallCount, apiKey, quota>>

\* venueModel.findOne of match t (lines 43-45) raises, finds the venue with
\* coordinates (then the weather is fetched), or leads to a venue search
TaskFindOne(t, raises) ==
    /\ up.pc = "enrich"
    /\ up.task[t].pc = "findOne"
    /\ LET i == FindOneVenue(venueStore, t)
       IN  IF raises
           THEN up' = TaskDone(t, "null") /\ UNCHANGED call
           ELSE IF i # 0 /\ Truthy(venueStore[i].lat) /\ Truthy(venueStore[i].lon)
           THEN /\ up' = [up EXCEPT !.task[t] = [pc |-> "weather", lat |-> venueStore[i].lat,
                                                  lon |-> venueStore[i].lon, weather |-> "null"]]
                /\ call' = [call EXCEPT ![t] = WeatherCall]
           ELSE /\ up' = [up EXCEPT !.task[t].pc = "search"]
                /\ call' = [call EXCEPT ![t] = SportsCall("searchVenue")]
    /\ UNCHANGED <<now, lock, status, runVars, reconcileVars, apiCallCount, apiKey, quota>>

\* the venue search of match t has returned (lines 59-111): the venue is saved
\* if it was found with coordinates; without coordinates no weather is fetched
TaskSearched(t) ==
    /\ up.pc = "enrich"
    /\ up.task[t].pc = "search"
    /\ call[t].pc = "returned"
    /\ LET venueData == searchVenue(t)
       IN  IF call[t].out.value # Null /\ Truthy(venueData.lat) /\ Truthy(venueData.lon)
           THEN up' = [up EXCEPT !.task[t] = [pc |-> "save", lat |-> venueData.lat,
                                               lon |-> venueData.lon, weather |-> "null"]]
           ELSE up' = TaskDone(t, "null")
    /\ call' = [call EXCEPT ![t] = NoCall]
    /\ UNCHANGED <<now, lock, status, runVars, reconcileVars, apiCallCount, apiKey, quota>>

\* a save that stores the match next to its venue
TaskSave_StoresMatch(t, raises) ==
    /\ up.pc = "enrich"
    /\ up.task[t].pc = "save"
    /\ IF raises
       THEN up' = TaskDone(t, "null") /\ UNCHANGED <<call, venueStore, matchStore>>
       ELSE /\ venueStore' = UpsertVenue(venueStore, t, up.task[t].lat, up.task[t].lon)
            /\ matchStore' = UpsertMatch(matchStore,
                    MatchDocument(MatchData(t, LA_LIGA, seasonLabel(LA_LIGA, BaseYear)), "null"))
            /\ up' = [up EXCEPT !.task[t].pc = "weather"]
            /\ call' = [call EXCEPT ![t] = WeatherCall]
    /\ UNCHANGED <<now, lock, status, runVars, apiCallCount, apiKey, quota>>
    /\ UNCHANGED <<year, feed, scores, weatherMode, sp, agg, obs>>

\* venueModel.findOneAndUpdate of the venue of match t (lines 92-111), which
\* raises or succeeds; then the weather is fetched
TaskSave(t, raises) ==
    /\ up.pc = "enrich"
    /\ up.task[t].pc = "save"
    /\ IF raises
       THEN up' = TaskDone(t, "null") /\ UNCHANGED <<call, venueStore>>
       ELSE /\ venueStore' = UpsertVenue(venueStore, t, up.task[t].lat, up.task[t].lon)
            /\ up' = [up EXCEPT !.task[t].pc = "weather"]
            /\ call' = [call EXCEPT ![t] = WeatherCall]
    /\ UNCHANGED <<now, lock, status, runVars, apiCallCount, apiKey, quota>>
    /\ UNCHANGED <<year, feed, scores, weatherMode, matchStore, sp, agg, obs>>

\* the weather call of match t has ended (lines 121-139): a call that raised
\* is caught and leaves weatherData null
TaskWeathered(t) ==
    /\ up.pc = "enrich"
    /\ up.task[t].pc = "weather"
    /\ call[t].pc = "returned"
    /\ up' = TaskDone(t, IF call[t].out.kind = "returns" /\ call[t].out.value # Null
                         THEN "snapshot" ELSE "null")
    /\ call' = [call EXCEPT ![t] = NoCall]
    /\ UNCHANGED <<now, lock, status, runVars, reconcileVars, apiCallCount, apiKey, quota>>

\* Promise.all has every enriched match: the call returns them
UpReturn ==
    /\ up.pc = "enrich"
    /\ \A t \in Callers : t <= up.n => up.task[t].pc = "done"
    /\ up' = [up EXCEPT !.pc = "returned"]
    /\ UNCHANGED <<now, lock, status, runVars, reconcileVars, apiCallCount, call, apiKey, quota>>

\* ------------------------------- SyncService.extractCoordinatesFromStrMap
\* an extractor that tries its expressions on a blank strMap too
ExtractCall_NoGuard(strMap) ==
    /\ ex.pc = "idle"
    /\ ex' = [NoExtract EXCEPT !.pc = "try", !.k = 1, !.strMap = strMap]
    /\ UNCHANGED <<now, lock, status, pc, years, resp, acqFrom, busy, lg, cur, err, bgSet, bgDel>>
    /\ UNCHANGED <<reconcileVars, apiCallCount, call, apiKey, quota, up, vr>>

\* the call and its guard (lines 680-683): a blank strMap returns null at once
ExtractCall(strMap) ==
    /\ ex.pc = "idle"
    /\ ex' = IF Blank(strMap)
             THEN [NoExtract EXCEPT !.pc = "done", !.strMap = strMap]
             ELSE [NoExtract EXCEPT !.pc = "try", !.k = 1, !.strMap = strMap]
    /\ UNCHANGED <<now, lock, status, pc, years, resp, acqFrom, busy, lg, cur, err, bgSet, bgDel>>
    /\ UNCHANGED <<reconcileVars, apiCallCount, call, apiKey, quota, up, vr>>

\* the block of the k-th expression: it returns valid coordinates, or falls
\* through to the next block; after the last one null is returned (line 897)
TryPattern ==
    /\ ex.pc = "try"
    /\ LET result == Yields(ex.k, ex.strMap.text)
           last == result.found \/ ex.k = Len(Patterns)
       IN  ex' = [ex EXCEPT !.tried = Append(@, ex.k),
                            !.out = result,
                            !.pc = IF last THEN "done" ELSE "try",
                            !.k = IF last THEN @ ELSE @ + 1]
    /\ UNCHANGED <<now, lock, status, pc, years, resp, acqFrom, busy, lg, cur, err, bgSet, bgDel>>
    /\ UNCHANGED <<reconcileVars, apiCallCount, call, apiKey, quota, up, vr>>

\* ------------------------------------------------------------ specification
\* the yearsToSync query parameters tried: absent, empty, not a number, out
\* of range, valid, and digits followed by other text ("1.5", "5abc")
Params ==
    {NoParam, Text(NotANumber, ""), Text(NotANumber, "abc"), Text(0, ""), Text(1, ""),
     Text(MAX_YEARS + 1, ""), Text(1, ".5"), Text(DEFAULT_YEARS, "abc")}

\* the steps of request r after its arrival, the reconciliation of a league apart
\* its reads and deletions of the key-value store, which do not fail
ReadStep(r) ==
    \/ AcqGet(r) \/ BgCheck(r) \/ BgDelLock(r) \/ BgDelStatus(r)
    \/ SalCheck(r) \/ SalVerify(r) \/ LgGet(r)
    \/ FinalGet(r) \/ CatchGet(r) \/ FinDelLock(r) \/ FinDelStatus(r)

\* its writes, each of which succeeds (ok) or is rejected by the store
WriteStep(r, ok) ==
    \/ AcqSetLock(r, ok) \/ AcqSetStatus(r, ok)
    \/ LgSetLock(r, ok) \/ LgSetStatus(r, ok)
    \/ FinalSet(r, ok) \/ CatchSet(r, ok) \/ BgSet(r, ok)

\* the writes of the acquisition syncAllLeagues makes when it finds no lock
RelockStep(r, ok) == SalSetLock(r, ok) \/ SalSetStatus(r, ok)

LockStep(r) ==
    \/ ReadStep(r)
    \/ \E ok \in BOOLEAN : WriteStep(r, ok) \/ RelockStep(r, ok)

RunStep(r) == LockStep(r) \/ LgSyncAtomic(r)

\* the steps of the reconciliation of a league, season by season
SyncStep(r) ==
    \/ SyncBegin(r) \/ SeasonExamine(r) \/ SeasonFetch(r)
    \/ \E failure \in Failures : ProcessMatch(r, failure)
    \/ SeasonDone(r) \/ SyncReturn(r)

Next ==
    \/ \E r \in Requests : \E param \in Params : CtrlCheck(r, param)
    \/ \E r \in Requests : RunStep(r)
    \/ Tick

Spec == Init /\ [][Next]_vars

\* the start requests all come with the default yearsToSync, or are invalid
NextDefault ==
    \/ \E r \in Requests : \E param \in {NoParam, Text(NotANumber, "abc")} : CtrlCheck(r, param)
    \/ \E r \in Requests : RunStep(r)

\* no time passes; the event loop runs every continuation that is ready
FairSpec == Init /\ [][NextDefault]_vars /\ \A r \in Requests : WF_vars(RunStep(r))

\* runs started one after the other, each over yearsToSync = 1 (two seasons a
\* league), against a key-value store that accepts every write and a provider
\* whose data changes between runs only
NextSync ==
    \/ \E r \in Requests : \E param \in {Text(1, ""), Text(NotANumber, "abc")} :
            /\ \A q \in Requests : q < r => Settled(q)
            /\ CtrlCheck(r, param)
    \/ \E r \in Requests : ReadStep(r) \/ WriteStep(r, TRUE)
    \/ \E r \in Requests : SyncStep(r)
    \/ \E e \in EventIds : ScoreChanges(e)
    \/ WeatherChanges

SpecSync == InitSync /\ [][NextSync]_vars

\* the process running request r dies: none of its remaining steps is taken
Crash(r) ==
    /\ pc[r] \notin {"idle", "responded", "done", "crashed"}
    /\ pc' = [pc EXCEPT ![r] = "crashed"]
    /\ UNCHANGED <<now, lock, status, years, resp, acqFrom, busy, lg, cur, err, bgSet, bgDel>>
    /\ UNCHANGED syncVars

NextCrash ==
    \/ NextDefault
    \/ Tick
    \/ \E r \in Requests : Crash(r)

SpecCrash == Init /\ [][NextCrash]_vars

\* the steps of a call of an API client once it is made
ClientStep(c) ==
    \/ CheckRateLimit(c) \/ SleepDone(c) \/ Count(c)
    \/ \E response \in Responses : Respond(c, response)

\* callers that use the API clients one call after the other
NextClient ==
    \/ \E c \in Callers : \E op \in SportsOps :
            /\ \A d \in Callers : call[d].pc = "idle"
            /\ ClientCall(c, op)
    \/ \E c \in Callers :
            /\ \A d \in Callers : call[d].pc = "idle"
            /\ WeatherBegin(c)
    \/ \E c \in Callers : ClientStep(c) \/ Resume(c)
    \/ Cooldown

SpecClient == InitClient /\ [][NextClient]_vars

\* the steps of the enrichment of match t
TaskStep(t) ==
    \/ \E raises \in BOOLEAN : TaskFindOne(t, raises) \/ TaskSave(t, raises)
    \/ TaskSearched(t) \/ TaskWeathered(t)

\* requests for the upcoming matches, one after the other, the matches of each
\* enriched in parallel
NextUpcoming ==
    \/ UpBegin \/ UpListed \/ UpReturn
    \/ \E t \in Callers : TaskStep(t)
    \/ \E c \in Callers : ClientStep(c)
    \/ Cooldown

SpecUpcoming == InitUpcoming /\ [][NextUpcoming]_vars

\* calls of the coordinate extractor, over the strMap values tried
NextCoords ==
    \/ \E strMap \in StrMaps : ExtractCall(strMap)
    \/ TryPattern

SpecCoords == Init /\ [][NextCoords]_vars

\* ------------------------------------------------------ vocabulary of claims
\* r is inside the try/catch of syncAllLeagues, its finally not yet run
InBlock(r) == InLoop(r) \/ pc[r] \in {"finalGet", "finalSet", "catchGet", "catchSet"}

\* r has not arrived, or was refused before it wrote anything
Quiet(r) == pc[r] = "idle" \/ (pc[r] = "responded" /\ resp[r] \in {400, 409})

TwoHoursSeconds == 2 * 60 * 60

\* ----------------------------------------------------------------------- C1
\* C1: mutual exclusion of acquire. When the acquireSyncLock calls of the start
\* requests are issued against a store whose LOCK is initially absent, under
\* any interleaving of their get/set steps, exactly one of them returns true
\* (the controller answers 200 exactly to the call that returned true).
C1_ExactlyOneAcquires ==
    (/\ now = 0
     /\ \A r \in Requests : pc[r] \in {"bgCheck", "responded"} /\ resp[r] \in {200, 409})
    => Cardinality({r \in Requests : resp[r] = 200}) = 1

\* ----------------------------------------------------------------------- C2
\* C2: at most one orchestrator run is active: never are two syncAllLeagues
\* invocations both inside their reconciliation loop.
C2_SingleActiveRun == Cardinality({r \in Requests : InLoop(r)}) <= 1

C4_TerminalStatusObservable ==
    [][\A r \in Requests :
        (/\ lg[r] > 0 /\ pc[r] # "done" /\ pc'[r] = "done"
         /\ \A q \in Requests \ {r} : Quiet(q))
        => /\ ~getSyncStatus.isRunning'
           /\ getSyncStatus.hasStatus'
           /\ IF err'[r] = "none"
              THEN /\ getSyncStatus.status'.status = "completed"
                   /\ getSyncStatus.status'.result # NoResult
              ELSE /\ getSyncStatus.status'.status = "error"
                   /\ getSyncStatus.status'.error = err'[r]]_vars

C6_ActiveSyncRefuses == \A r \in Requests : busy[r] => (resp[r] # 200 /\ lg[r] = 0)

\* what the controller does guarantee for C6: a start request that finds the
\* lock key present (isSyncRunning(), at either of its two checks) is answered
\* 409 SYNC_IN_PROGRESS, starts no run then or later, and leaves LOCK, STATUS
\* and every other request's progress untouched.
C6_ConflictSignal ==
    /\ [][\A r \in Requests :
            (/\ pc[r] \in {"idle", "acqGet"} /\ acqFrom[r] = "ctrl"
             /\ isSyncRunning /\ pc'[r] # pc[r])
            => /\ resp'[r] = 409 /\ pc'[r] = "responded"
               /\ UNCHANGED <<lock, status, lg, cur, err, years, bgSet, bgDel>>
               /\ \A q \in Requests \ {r} : pc'[q] = pc[q] /\ resp'[q] = resp[q]]_vars
    /\ [][\A r \in Requests :
            pc[r] = "responded" => (pc'[r] = "responded" /\ resp'[r] = resp[r] /\ lg'[r] = lg[r])]_vars

\* a request was refused with 409 while another request's run is in its loop
C6_Witness ==
    \E r, q \in Requests :
        /\ pc[r] = "responded" /\ resp[r] = 409 /\ lg[r] = 0
        /\ InLoop(q) /\ isSyncRunning

\* ----------------------------------------------------------------------- C7
\* C7: lock self-expiry. LOCK is never observed once 2 hours have elapsed
\* since its last write, also when the run that wrote it crashed without
\* releasing; while LOCK is present acquireSyncLock returns false, and once it
\* is absent acquireSyncLock proceeds to acquire.
C7_LockSelfExpiry ==
    /\ [](lock.present => (now < lock.exp /\ lock.exp <= now + TwoHoursSeconds))
    /\ [][\A r \in Requests :
            (pc[r] = "acqGet" /\ pc'[r] # "acqGet" /\ pc'[r] # "crashed")
            => IF lock.present THEN pc'[r] \in {"responded", "done"}
                               ELSE pc'[r] = "acqSetLock"]_vars

\* a run crashed holding the lock; after 2 hours another request acquired it
C7_Witness ==
    \E r, q \in Requests :
        /\ pc[r] = "crashed" /\ lg[r] > 0
        /\ now >= TwoHoursSeconds
        /\ pc[q] = "bgCheck" /\ resp[q] = 200 /\ isSyncRunning
        /\ status.val.startedAt >= TwoHoursSeconds

\* ------------------------------------------------- vocabulary of C8 to C10
\* the store holds a match of the (league, season)
HoldsSeason(store, leagueId, season) ==
    \E i \in DOMAIN store : store[i].idLeague = leagueId /\ store[i].strSeason = season

\* the (league, season) pairs whose listing run r has requested from the provider
ListedBy(r) == {obs[r].listed[i] : i \in DOMAIN obs[r].listed}

\* the season of the current year, and of the year before, of a league
CurrentKey(l) == <<l, seasonLabel(l, year)>>
PastKey(l) == <<l, seasonLabel(l, year - 1)>>

\* run r has processed, without a failure, the match at position m of its list
Upserted(r) ==
    /\ pc[r] = "matchLoop"
    /\ sp'[r].m = sp[r].m + 1
    /\ obs'[r].errors = obs[r].errors

\* both runs completed without a failure, against the same provider data
TwiceOverSameData ==
    /\ \A r \in {1, 2} : pc[r] = "done" /\ lg[r] > 0 /\ err[r] = "none" /\ obs[r].errors = 0
    /\ obs[1].scores = obs[2].scores
    /\ obs[1].weatherMode = obs[2].weatherMode

\* the number of matches the provider lists for the seasons of the current year
CurrentListed == Len(feed[CurrentKey(LA_LIGA)]) + Len(feed[CurrentKey(MLS)])

\* ----------------------------------------------------------------------- C8
\* C8: upsert key stability. The match store never holds two records with the
\* same idEvent; a match processed without failure leaves exactly one record
\* of its idEvent, holding the values just listed by the provider; and a
\* stored record stays where it is and changes only by such an upsert of its
\* own idEvent, whatever the number of runs, the score changes between runs
\* and the events listed twice in a season.
C8_UpsertKeyStability ==
    /\ [](\A e \in EventIds : Cardinality(MatchesWith(matchStore, e)) <= 1)
    /\ [][\A r \in Requests :
            Upserted(r) =>
                LET matchData == sp[r].matches[sp[r].m]
                    docs == MatchesWith(matchStore', matchData.idEvent)
                IN  /\ Cardinality(docs) = 1
                    /\ \A i \in docs :
                          /\ matchStore'[i].intHomeScore = scores[matchData.idEvent]
                          /\ matchStore'[i].idLeague = leagues[lg[r]]
                          /\ matchStore'[i].strSeason = Season(r)
                          /\ matchStore'[i].idVenue = matchData.idVenue]_vars
    /\ [][\A i \in DOMAIN matchStore :
            /\ i \in DOMAIN matchStore'
            /\ matchStore'[i].idEvent = matchStore[i].idEvent
            /\ matchStore'[i] # matchStore[i] =>
                  \E r \in Requests :
                      Upserted(r) /\ sp[r].matches[sp[r].m].idEvent = matchStore[i].idEvent]_vars

\* an event listed twice in its season, stored with no score by the first run,
\* has been synced again by the second run after its score changed
C8_Witness ==
    \E e \in EventIds :
        /\ \E k \in DOMAIN feed : \E i, j \in DOMAIN feed[k] : i # j /\ feed[k][i] = e /\ feed[k][j] = e
        /\ pc[1] = "done" /\ pc[2] = "done"
        /\ \E i \in DOMAIN obs[1].store :
              obs[1].store[i].idEvent = e /\ obs[1].store[i].intHomeScore = "null"
        /\ Cardinality(MatchesWith(matchStore, e)) = 1
        /\ \A i \in MatchesWith(matchStore, e) : matchStore[i].intHomeScore = "1"
        /\ agg[2].skippedMatches >= 2

C10_SeasonSkipRule ==
    /\ [][\A r \in Requests :
            (pc[r] = "seasonExamine" /\ sp[r].i <= years[r] /\ <<pc[r], sp[r]>>' # <<pc[r], sp[r]>>)
            => IF \/ SeasonYear(r) = sp[r].currentYear
                  \/ ~HoldsSeason(matchStore, leagues[lg[r]], Season(r))
               THEN pc'[r] = "seasonFetch" /\ sp'[r] = sp[r]
               ELSE /\ pc'[r] = "seasonExamine"
                    /\ sp'[r].i = sp[r].i + 1
                    /\ obs'[r].listed = obs[r].listed]_vars
    /\ [][\A r \in Requests :
            /\ (pc[r] = "seasonFetch" /\ pc'[r] # "seasonFetch")
                  => obs'[r].listed = Append(obs[r].listed, <<leagues[lg[r]], Season(r)>>)
            /\ obs'[r].listed # obs[r].listed => pc[r] = "seasonFetch"]_vars

\* the second run has skipped a stored past season and fetched again the stored
\* season of the current year of the same league
C10_Witness ==
    \E l \in {LA_LIGA, MLS} :
        /\ pc[1] = "done" /\ pc[2] = "done"
        /\ HoldsSeason(obs[1].store, l, seasonLabel(l, year - 1))
        /\ HoldsSeason(obs[1].store, l, seasonLabel(l, year))
        /\ PastKey(l) \notin ListedBy(2)
        /\ CurrentKey(l) \in ListedBy(2)
        /\ PastKey(l) \in ListedBy(1)

\* ---------------------------------------------------------------------- C11
\* C11: a season-listing failure is fatal to the run. Once getMatchesBySeason
\* has failed for run r, r requests no further listing, processes no further
\* match and moves to no further league; the matches stored before the failure
\* stay stored; and when the run ends, LOCK is absent and STATUS holds
\* status = 'error' with the message of the failure.
C11_ListingFailureFatal ==
    /\ [][\A r \in Requests :
            (err[r] = "season listing failed" /\ pc[r] # "done")
            => /\ obs'[r].listed = obs[r].listed
               /\ lg'[r] = lg[r]
               /\ sp'[r] = sp[r]
               /\ pc'[r] \notin {"lgGet", "lgSync", "seasonExamine", "seasonFetch", "matchLoop"}
               /\ \A i \in DOMAIN matchStore : i \in DOMAIN matchStore' /\ matchStore'[i] = matchStore[i]]_vars
    /\ [][\A r \in Requests :
            (pc[r] # "done" /\ pc'[r] = "done" /\ err'[r] = "season listing failed")
            => /\ ~lock'.present
               /\ status'.present
               /\ status'.val.status = "error"
               /\ status'.val.error = "season listing failed"]_vars

\* ---------------------------------------------------------------------- C12
\* the number of matches in the listings a run has received, in call order
RECURSIVE ListedMatches(_)
ListedMatches(keys) ==
    IF keys = <<>> THEN 0 ELSE Len(feed[Head(keys)]) + ListedMatches(Tail(keys))

\* run r has processed the match at position m of its list, and it failed
FailedMatch(r) ==
    /\ pc[r] = "matchLoop"
    /\ sp'[r].m = sp[r].m + 1
    /\ obs'[r].errors = obs[r].errors + 1

\* C12: a per-match failure is non-fatal. The failing match adds one to the
\* skipped count and nothing to the synced count, stores no match, raises
\* nothing to the run and moves the loop to the next match of the season; a
\* run that ends without a listing failure has counted every match of every
\* listing it received exactly once, as synced or as skipped, and has received
\* the listing of the current season of both leagues.
C12_MatchFailureNonFatal ==
    /\ [][\A r \in Requests :
            (pc[r] = "matchLoop" /\ sp[r].m <= Len(sp[r].matches) /\ sp'[r] # sp[r])
            => /\ sp'[r].m = sp[r].m + 1
               /\ pc'[r] = "matchLoop" /\ err'[r] = err[r] /\ lg'[r] = lg[r]
               /\ sp'[r].res.syncedMatches + sp'[r].res.skippedMatches
                     = sp[r].res.syncedMatches + sp[r].res.skippedMatches + 1
               /\ FailedMatch(r) => /\ sp'[r].res.skippedMatches = sp[r].res.skippedMatches + 1
                                    /\ matchStore' = matchStore]_vars
    /\ [](\A r \in Requests :
            (pc[r] = "done" /\ lg[r] > 0 /\ err[r] = "none")
            => /\ agg[r].syncedMatches + agg[r].skippedMatches = ListedMatches(obs[r].listed)
               /\ \A l \in {LA_LIGA, MLS} : CurrentKey(l) \in ListedBy(r))

\* a run has ended normally although the first of two matches of a season
\* failed: the second is stored, the first is not
C12_Witness ==
    \E r \in Requests :
        /\ pc[r] = "done" /\ err[r] = "none" /\ obs[r].errors = 1
        /\ \E k \in DOMAIN feed : feed[k] = <<1, 2>>
        /\ MatchesWith(matchStore, 1) = {}
        /\ MatchesWith(matchStore, 2) # {}
        /\ agg[r].skippedMatches >= 1 /\ agg[r].syncedMatches >= 1

\* ---------------------------------------------------------------------- C13
\* C13: weather failure isolation. A match whose venue has coordinates and
\* whose weather fetch fails (returns null, or raises) is processed without a
\* logged failure: it is upserted, with weatherAtMatchTime null, it is counted
\* as synced or updated like any other match, and the loop moves to the next
\* match of the season.
C13_WeatherFailureIsolated ==
    [][\A r \in Requests :
        (/\ pc[r] = "matchLoop" /\ sp[r].m <= Len(sp[r].matches) /\ sp'[r] # sp[r]
         /\ weatherMode # "snapshot"
         /\ obs'[r].errors = obs[r].errors)
        => LET matchData == sp[r].matches[sp[r].m]
               docs == MatchesWith(matchStore', matchData.idEvent)
           IN  /\ Cardinality(docs) = 1
               /\ \A i \in docs : matchStore'[i].weatherAtMatchTime = "null"
               /\ sp'[r].m = sp[r].m + 1
               /\ pc'[r] = "matchLoop" /\ err'[r] = err[r]
               /\ sp'[r].res.skippedMatches =
                     sp[r].res.skippedMatches
                        + (IF MatchesWith(matchStore, matchData.idEvent) # {} THEN 1 ELSE 0)]_vars

\* the weather client raised during a run that ended normally and without a
\* logged failure; the match with coordinates (venue 1) was stored before, with
\* a snapshot, and is now stored without one, as is the match listed after it
C13_Witness ==
    /\ pc[1] = "done" /\ pc[2] = "done" /\ err[2] = "none" /\ obs[2].errors = 0
    /\ obs[2].weatherMode = "raises"
    /\ \E k \in DOMAIN feed : feed[k] = <<1, 2>>
    /\ \E i \in DOMAIN obs[1].store :
          obs[1].store[i].idEvent = 1 /\ obs[1].store[i].weatherAtMatchTime = "snapshot"
    /\ \E i \in DOMAIN obs[2].store :
          obs[2].store[i].idEvent = 1 /\ obs[2].store[i].weatherAtMatchTime = "null"
    /\ MatchesWith(obs[2].store, 2) # {}

\* ---------------------------------------------------------------------- C14
\* the venue store holds the venue with coordinates that are not null (nor 0)
HoldsCoordinates(store, id) ==
    \E i \in VenuesWith(store, id) : Truthy(store[i].lat) /\ Truthy(store[i].lon)

\* C14: venue coordinate caching. When a sync run processes a match whose
\* venue is already stored with coordinates, it makes no venue-search call to
\* the provider.
C14_NoSearchForStoredVenue ==
    [][\A r \in Requests :
        (/\ pc[r] = "matchLoop" /\ sp[r].m <= Len(sp[r].matches) /\ sp'[r] # sp[r]
         /\ HoldsCoordinates(venueStore, sp[r].matches[sp[r].m].idVenue))
        => obs'[r].searches = obs[r].searches]_vars

\* ---------------------------------------------------------------------- C15
\* C15: getUpcomingMatches never writes to the match store. No step of a call,
\* from the listing to the return of the enriched matches, changes the Match
\* collection, and the Venue collection changes only by the save of a venue
\* that was just found with coordinates.
C15_UpcomingWritesVenuesOnly ==
    [][/\ matchStore' = matchStore
       /\ venueStore' # venueStore =>
             \E t \in Callers :
                /\ up.task[t].pc = "save" /\ up'.task[t].pc = "weather"
                /\ venueStore' = UpsertVenue(venueStore, t, up.task[t].lat, up.task[t].lon)]_vars

\* a call has returned two enriched matches, one with a snapshot, after saving
\* a venue, and the match the store held before is all it holds
C15_Witness ==
    /\ up.pc = "returned" /\ up.n = 2
    /\ up.task[1].weather = "snapshot"
    /\ VenuesWith(venueStore, 1) # {}
    /\ Len(matchStore) = 1 /\ matchStore[1].strSeason = seasonLabel(LA_LIGA, BaseYear - 1)

\* ---------------------------------------------------------------------- C16
\* C16: rate limit quota. For callers that use the client one call after the
\* other, every provider call is made right after the counter was incremented
\* by exactly one, which happens only after a check; the check suspends the
\* call for 60 seconds exactly when the counter has reached 28, and the
\* counter is 0 when the call resumes. The counter stays within 0..28 and at
\* most 28 calls are issued between two resets.
C16_RateLimitQuota ==
    [][/\ \A c \in Callers :
            /\ (call[c].pc = "check" /\ call'[c].pc # "check")
                  => /\ apiCallCount' = apiCallCount
                     /\ IF apiCallCount >= 28
                        THEN call'[c].pc = "sleep" /\ call'[c].wake = now + 60
                        ELSE call'[c].pc = "count"
            /\ (call[c].pc = "sleep" /\ call'[c].pc # "sleep")
                  => now >= call[c].wake /\ apiCallCount' = 0 /\ call'[c].pc = "count"
            /\ (call[c].pc # "request" /\ call'[c].pc = "request" /\ call'[c].op \in SportsOps)
                  => call[c].pc = "count" /\ apiCallCount' = apiCallCount + 1
            /\ (call[c].pc # "count" /\ call'[c].pc = "count")
                  => call[c].pc \in {"check", "sleep"}
       /\ apiCallCount' \in 0..28
       /\ quota'.issued <= 28]_vars

\* 28 calls were issued since the first cooldown and the next call, a venue
\* search, is suspended for the second one
C16_Witness ==
    /\ quota.cooldowns = 1 /\ quota.issued = 28 /\ apiCallCount = 28
    /\ \E c \in Callers : call[c].pc = "sleep" /\ call[c].op = "searchVenue"

\* ---------------------------------------------------------------------- C17
\* C17: failure asymmetry. A venue search never raises: it returns null when
\* its GET failed or found no venue, and the venue otherwise. A season listing
\* raises when its GET failed, returns the empty list when the answer holds no
\* events, and the events otherwise.
C17_FailureAsymmetry ==
    \A c \in Callers :
        call[c].pc = "returned" =>
            /\ call[c].op = "searchVenue" =>
                  /\ call[c].out.kind = "returns"
                  /\ call[c].out.value = Null <=> ~HasItems(call[c].response)
            /\ call[c].op = "getMatchesBySeason" =>
                  /\ call[c].out.kind = "raises" <=> ~call[c].response.ok
                  /\ call[c].response.ok =>
                        call[c].out.value =
                            (IF HasItems(call[c].response) THEN call[c].response.items ELSE 0)

\* a venue search whose GET failed has returned null, after a season listing
\* and another call were counted
C17_Witness ==
    /\ apiCallCount >= 3
    /\ \E c \in Callers :
          /\ call[c].op = "searchVenue" /\ call[c].pc = "returned"
          /\ ~call[c].response.ok /\ call[c].out = Returns(Null)

\* ---------------------------------------------------------------------- C18
\* C18: the season listing is the only method of the API client that raises. A
\* listing of the upcoming matches whose GET failed returns the empty list.
C18_OnlySeasonListingRaises ==
    \A c \in Callers :
        (call[c].pc = "returned" /\ call[c].op \in SportsOps) =>
            /\ call[c].out.kind = "raises" => call[c].op = "getMatchesBySeason"
            /\ (call[c].op = "getUpcomingMatches" /\ ~call[c].response.ok)
                  => call[c].out = Returns(0)

\* ---------------------------------------------------------------------- C19
\* C19: the weather client never raises. A call of getWeatherAtTimestamp that
\* has ended has returned, and it has returned null unless its GET was
\* answered with data: also when the API key is missing, when the GET failed
\* and when the answer is empty or has no body.
C19_WeatherNeverRaises ==
    \A c \in Callers :
        (call[c].pc = "returned" /\ call[c].op = WeatherOp) =>
            /\ call[c].out.kind = "returns"
            /\ (~apiKey \/ ~HasItems(call[c].response)) => call[c].out.value = Null

\* ---------------------------------------------------------------------- C20
\* C20: processing order. A run processes league 4335, then league 4346. The
\* call for a league starts with the season of the current year and moves one
\* year back at a time, only once the season at hand was skipped or all its
\* listed matches were processed; it returns after yearsToSync + 1 seasons.
\* The season of year Y is counted in the store and requested from the
\* provider as (Y, Y+1) for 4335 and as (Y) for 4346.
C20_ProcessingOrder ==
    [][\A r \in Requests :
        LET Y == sp[r].currentYear - sp[r].i
            key == IF lg[r] = 1 THEN <<4335, <<Y, Y + 1>>>> ELSE <<4346, <<Y>>>>
            stored == Cardinality({i \in DOMAIN matchStore :
                                      /\ matchStore[i].idLeague = key[1]
                                      /\ matchStore[i].strSeason = key[2]})
            InCall(p) == p \in {"seasonExamine", "seasonFetch", "matchLoop"}
        IN  /\ lg'[r] # lg[r] =>
                  /\ lg'[r] = lg[r] + 1 /\ lg'[r] \in 1..2
                  /\ lg[r] >= 1 => (pc[r] = "seasonExamine" /\ sp[r].i = years[r] + 1)
            /\ (InCall(pc[r]) /\ ~InCall(pc'[r])) =>
                  \/ err'[r] # err[r]
                  \/ sp[r].i = years[r] + 1
            /\ (~InCall(pc[r]) /\ InCall(pc'[r])) =>
                  sp'[r].i = 0 /\ sp'[r].currentYear = year /\ lg[r] \in 1..2
            /\ (InCall(pc[r]) /\ InCall(pc'[r]) /\ sp'[r].i # sp[r].i) =>
                  /\ sp'[r].i = sp[r].i + 1 /\ sp[r].i <= years[r]
                  /\ \/ /\ pc[r] = "seasonExamine"
                        /\ stored > 0
                        /\ sp'[r].res.totalMatches = sp[r].res.totalMatches + stored
                        /\ sp'[r].res.skippedSeasons = sp[r].res.skippedSeasons + 1
                     \/ /\ pc[r] = "matchLoop"
                        /\ sp[r].m = Len(sp[r].matches) + 1
            /\ obs'[r].listed # obs[r].listed =>
                  /\ obs'[r].listed = Append(obs[r].listed, key)
                  /\ sp[r].i \in 0..years[r]]_vars

\* a run over yearsToSync = 1 has ended after requesting, in this order, the
\* current and the previous season of 4335 and then those of 4346
C20_Witness ==
    \E r \in Requests :
        /\ pc[r] = "done" /\ err[r] = "none" /\ years[r] = 1
        /\ obs[r].listed = << <<4335, <<year, year + 1>>>>, <<4335, <<year - 1, year>>>>,
                              <<4346, <<year>>>>, <<4346, <<year - 1>>>> >>

\* ---------------------------------------------------------------------- C21
\* C21: non-blocking start. The request that acquires the lock is answered
\* 'started' (200) by the step that completes the acquisition, before the run
\* has entered its loop; no later step of the run, whether it completes or
\* fails, touches the answer; what the run ends in goes to STATUS, as the
\* 'completed' or the 'error' status written (when the store accepts the
\* write) once the loop is left.
C21_NonBlockingStart ==
    [][\A r \in Requests :
        /\ (pc[r] = "acqSetStatus" /\ acqFrom[r] = "ctrl" /\ pc'[r] = "bgCheck")
              => resp'[r] = 200
        /\ (resp'[r] = 200 /\ resp[r] # 200)
              => /\ pc[r] = "acqSetStatus" /\ acqFrom[r] = "ctrl"
                 /\ lg[r] = 0 /\ lg'[r] = 0 /\ err[r] = "none"
                 /\ status'.present /\ status'.val.status = "none"
        /\ resp[r] # 0 => resp'[r] = resp[r]
        /\ (pc[r] = "finalSet" /\ pc'[r] = "finDelLock")
              => status'.present /\ status'.val.status = "completed"
        /\ (pc[r] = "catchSet" /\ pc'[r] # "catchSet" /\ status' # status)
              => status'.present /\ status'.val.status = "error"]_vars

\* two requests were answered 'started'; the run of one has completed and the
\* run of the other has failed
C21_Witness ==
    \E r, q \in Requests :
        /\ pc[r] = "done" /\ resp[r] = 200 /\ err[r] = "none"
        /\ pc[q] = "done" /\ resp[q] = 200 /\ err[q] # "none"

\* ---------------------------------------------------------------------- C22
\* C22: priority and validation of the coordinate extractor. The expressions
\* are tried in the order 1..6; one that does not match, or whose match
\* converts to a latitude outside [-90, 90] or a longitude outside
\* [-180, 180], is passed over and the next one is tried; the call returns
\* what the first expression with valid coordinates yields, and null when
\* there is none; whatever is returned is within those ranges.
C22_ExtractorPriority ==
    LET s == ex.strMap.text
        valid == {k \in DOMAIN Patterns : Yields(k, s).found}
    IN  /\ \A i \in DOMAIN ex.tried : ex.tried[i] = i
        /\ ex.pc = "try" =>
              /\ ex.k = Len(ex.tried) + 1
              /\ \A j \in DOMAIN ex.tried : j \notin valid
        /\ (ex.pc = "done" /\ ~Blank(ex.strMap)) =>
              IF valid = {}
              THEN ex.out = NoCoords /\ Len(ex.tried) = 6
              ELSE LET first == CHOOSE k \in valid : \A z \in valid : k <= z
                   IN  ex.out = Yields(first, s) /\ Len(ex.tried) = first
        /\ ex.out.found =>
              /\ ex.out.lat >= 0 - 90 * 3600000 /\ ex.out.lat <= 90 * 3600000
              /\ ex.out.lon >= 0 - 180 * 3600000 /\ ex.out.lon <= 180 * 3600000

\* "100,200&q=30.387,-97.719": the first expression matches 100,200, which is
\* no latitude; the second one yields the coordinates returned
C22_Witness ==
    /\ ex.pc = "done"
    /\ ex.strMap = StrMap(<<Whole(100), Sym(","), Whole(200), Sym("&q="),
                            Num(30, 387, 3), Sym(","), Sym("-"), Num(97, 719, 3)>>)
    /\ MatchAfter(Patterns[1], ex.strMap.text, 1).ok
    /\ ex.tried = <<1, 2>>
    /\ ex.out = Coords(30387 * 3600, 0 - 97719 * 3600)

\* ---------------------------------------------------------------------- C23
\* the value of a component in 1/3600000 degree, from its degrees, minutes
\* and seconds in thousandths: degrees + minutes/60 + seconds/3600, negated
\* for the given direction letter
Component(deg, minutes, seconds, direction, negative) ==
    LET v == deg * 3600 + minutes * 60 + seconds
    IN  IF direction = negative THEN 0 - v ELSE v

\* C23: coordinate conversion. For an input with direction letters (decimal
\* degrees; whole degrees with minutes; whole degrees and minutes with
\* seconds) the extractor returns, when it returns coordinates, degrees +
\* minutes/60 + seconds/3600 for each component, the first negated exactly
\* when its letter is S and the second exactly when its letter is W; it
\* returns them whenever they are in range. "39d28m29sN 0d21m30sW" gives
\* 39 + 28/60 + 29/3600 and -(21/60 + 30/3600), "34.013dN 118.285dW" gives
\* 34.013 and -118.285.
C23_CoordinateConversion ==
    LET s == ex.strMap.text
        expected ==
            IF Len(s) = 7
            THEN Coords(Component(Thousandths(s[1]), 0, 0, s[3].c, "S"),
                        Component(Thousandths(s[5]), 0, 0, s[7].c, "W"))
            ELSE IF Len(s) = 11
            THEN Coords(Component(1000 * s[1].whole, Thousandths(s[3]), 0, s[5].c, "S"),
                        Component(1000 * s[7].whole, Thousandths(s[9]), 0, s[11].c, "W"))
            ELSE Coords(Component(1000 * s[1].whole, 1000 * s[3].whole, Thousandths(s[5]), s[7].c, "S"),
                        Component(1000 * s[9].whole, 1000 * s[11].whole, Thousandths(s[13]), s[15].c, "W"))
        inRange == /\ expected.lat >= 0 - 90 * 3600000 /\ expected.lat <= 90 * 3600000
                   /\ expected.lon >= 0 - 180 * 3600000 /\ expected.lon <= 180 * 3600000
    IN  /\ (/\ ex.pc = "done"
            /\ s \in DirectionMaps \cup MinuteMaps \cup SecondMaps
            /\ Len(s) > 7 => s[1].digits = 0)
              => ex.out = (IF inRange THEN expected ELSE NoCoords)
        /\ (ex.pc = "done" /\ ex.strMap = StrMap(
                <<Whole(39), Sym("deg"), Whole(28), Sym("min"), Whole(29), Sym("sec"), Sym("N"), SP,
                  Whole(0), Sym("deg"), Whole(21), Sym("min"), Whole(30), Sym("sec"), Sym("W")>>))
              => ex.out = Coords((39 * 3600 + 28 * 60 + 29) * 1000, 0 - (21 * 60 + 30) * 1000)
        /\ (ex.pc = "done" /\ ex.strMap = StrMap(
                <<Num(34, 13, 3), Sym("deg"), Sym("N"), SP, Num(118, 285, 3), Sym("deg"), Sym("W")>>))
              => ex.out = Coords(34013 * 3600, 0 - 118285 * 3600)

\* "39d58m6.46sS 83d1m1.52sW" has been converted by the sixth expression
C23_Witness ==
    /\ ex.pc = "done"
    /\ ex.strMap = StrMap(
          <<Whole(39), Sym("deg"), Whole(58), Sym("min"), Num(6, 46, 2), Sym("sec"), Sym("S"), SP,
            Whole(83), Sym("deg"), Whole(1), Sym("min"), Num(1, 52, 2), Sym("sec"), Sym("W")>>)
    /\ ex.tried = <<1, 2, 3, 4, 5, 6>>
    /\ ex.out = Coords(0 - (39 * 3600000 + 58 * 60000 + 6460), 0 - (83 * 3600000 + 60000 + 1520))

\* ---------------------------------------------------------------------- C24
\* C24: a missing, empty or whitespace-only strMap makes the extractor return
\* null without trying any expression; an input that matches none of the six
\* expressions makes it return null after trying them all; a call ends in
\* coordinates or in null and in nothing else.
C24_BlankOrUnmatchedIsNone ==
    /\ (ex.pc # "idle" /\ (ex.strMap = NoStrMap \/ ex.strMap.text \in BlankMaps))
          => ex.pc = "done" /\ ex.tried = <<>> /\ ex.out = NoCoords
    /\ (ex.pc = "done" /\ ex.strMap.given /\ ex.strMap.text \in OtherMaps)
          => ex.tried = <<1, 2, 3, 4, 5, 6>> /\ ex.out = NoCoords
    /\ ex.pc \in {"idle", "try", "done"}
    /\ ex.pc # "done" => ex.out = NoCoords

\* a call with a strMap of two spaces has returned null
C24_Witness ==
    /\ ex.pc = "done"
    /\ ex.strMap = StrMap(<<SP, SP>>)
    /\ ex.tried = <<>> /\ ex.out = NoCoords

\* ---------------------------------------------------------------------- C25
\* r starts the work on a league in this step
StartsLeague(r) == pc[r] # "lgSync" /\ pc'[r] = "lgSync"

\* r writes the status key in this step, from inside syncAllLeagues
WritesStatus(r) ==
    /\ pc[r] \in {"lgSetStatus", "finalSet", "catchSet"}
    /\ pc'[r] \in {"lgSync", "finDelLock"}
    /\ status' # status

\* the first half of C25: the work on a league starts right after the status
\* was written with that league as currentLeague and with its name
C25_ProgressWritten ==
    [][\A r \in Requests :
        StartsLeague(r) =>
            /\ pc[r] = "lgSetStatus"
            /\ lg'[r] = lg[r]
            /\ status'.present
            /\ status'.val.status = "none"
            /\ status'.val.currentLeague = leagues[lg[r]]
            /\ status'.val.currentLeagueName = leagueName(leagues[lg[r]])]_vars

\* C25: progress precedes work. The status is written with currentLeague = L
\* and the name of L before any store query or provider call for L, and the
\* startedAt of the acquisition is carried by every later write of the status
\* by the run, the terminal one included: each such write takes startedAt from
\* the status it has read, never from the clock and never leaves it out.
C25_ProgressPrecedesWork ==
    [][\A r \in Requests :
        /\ StartsLeague(r) =>
              /\ pc[r] = "lgSetStatus"
              /\ status'.present
              /\ status'.val.currentLeague = leagues[lg[r]]
              /\ status'.val.currentLeagueName = leagueName(leagues[lg[r]])
        /\ WritesStatus(r) =>
              /\ cur[r].startedAt # NoTime
              /\ status'.val.startedAt = cur[r].startedAt]_vars

\* ---------------------------------------------------------------------- C26
\* the (league, season) pairs the call of run r for its league at hand examines
ExaminedBy(r) ==
    {<<leagues[lg[r]], seasonLabel(leagues[lg[r]], sp[r].currentYear - i)>> : i \in 0..years[r]}

\* of these, the ones whose listing the call has requested
FetchedBy(r) == ExaminedBy(r) \cap ListedBy(r)

RECURSIVE SumOver(_, _)
SumOver(S, store) ==
    IF S = {} THEN [listed |-> 0, stored |-> 0]
    ELSE LET k == CHOOSE x \in S : TRUE
             rest == SumOver(S \ {k}, store)
         IN  [listed |-> Len(Listing(k[1], k[2])) + rest.listed,
              stored |-> Cardinality({i \in DOMAIN store :
                                         store[i].idLeague = k[1] /\ store[i].strSeason = k[2]})
                            + rest.stored]

\* C26: count accounting. A match whose upsert is made is counted once, as
\* synced when no record with its idEvent was stored right before and as
\* skipped when one was (a match whose processing failed is counted as
\* skipped, C12). When syncPreviousMatches returns, syncedMatches +
\* skippedMatches is the number of matches of the listings it received,
\* totalMatches is that number plus the stored matches of the seasons it
\* skipped, skippedSeasons is the number of seasons it skipped; syncAllLeagues
\* starts from zero and adds the result of each league to its totals.
C26_CountAccounting ==
    /\ [][\A r \in Requests :
            /\ (pc[r] = "matchLoop" /\ sp'[r].m = sp[r].m + 1 /\ obs'[r].errors = obs[r].errors)
               => LET existed == \E i \in DOMAIN matchStore :
                                    matchStore[i].idEvent = sp[r].matches[sp[r].m].idEvent
                  IN  /\ sp'[r].res.syncedMatches = sp[r].res.syncedMatches + (IF existed THEN 0 ELSE 1)
                      /\ sp'[r].res.skippedMatches = sp[r].res.skippedMatches + (IF existed THEN 1 ELSE 0)
                      /\ sp'[r].res.totalMatches = sp[r].res.totalMatches
                      /\ sp'[r].res.skippedSeasons = sp[r].res.skippedSeasons
            /\ (pc[r] = "seasonExamine" /\ pc'[r] \in {"lgGet", "finalGet"})
               => LET res == sp[r].res
                      fetched == SumOver(FetchedBy(r), matchStore)
                      skipped == SumOver(ExaminedBy(r) \ FetchedBy(r), matchStore)
                  IN  /\ res.syncedMatches + res.skippedMatches = fetched.listed
                      /\ res.totalMatches = fetched.listed + skipped.stored
                      /\ res.skippedSeasons = Cardinality(ExaminedBy(r) \ FetchedBy(r))
                      /\ lg[r] = 1 => agg[r] = EmptyResult
                      /\ agg'[r].totalMatches = agg[r].totalMatches + res.totalMatches
                      /\ agg'[r].syncedMatches = agg[r].syncedMatches + res.syncedMatches
                      /\ agg'[r].skippedMatches = agg[r].skippedMatches + res.skippedMatches
                      /\ agg'[r].skippedSeasons = agg[r].skippedSeasons + res.skippedSeasons]_vars
    /\ [](\A r \in Requests :
            (pc[r] = "done" /\ lg[r] > 0 /\ err[r] = "none")
            => /\ agg[r].skippedSeasons + Len(obs[r].listed) = Len(leagues) * (years[r] + 1)
               /\ agg[r].totalMatches >= agg[r].syncedMatches + agg[r].skippedMatches)

\* a second run has skipped a stored past season, counted its stored match in
\* totalMatches, and has inserted a match of the current season
C26_Witness ==
    /\ pc[2] = "done" /\ err[2] = "none"
    /\ agg[2].skippedSeasons = 1
    /\ agg[2].syncedMatches = 1
    /\ agg[2].skippedMatches = 0
    /\ agg[2].totalMatches = 2

\* ---------------------------------------------------------------------- C27
\* the part of C27 about the refusal: an invocation that finds the lock under
\* a status with another yearsToSync raises 'already running' having processed
\* no league, and the step leaves the lock and status keys as they are
C27_RefusalTouchesNothing ==
    [][\A r \in Requests :
        (pc[r] = "salVerify" /\ pc'[r] = "bgCatch")
        => /\ ~OwnsLock(r)
           /\ err'[r] = "already running"
           /\ lg[r] = 0 /\ lg'[r] = 0
           /\ lock' = lock /\ status' = status
           /\ matchStore' = matchStore /\ venueStore' = venueStore]_vars

\* C27: lock ownership check. syncAllLeagues enters the reconciliation loop
\* only when the lock it finds was acquired for this invocation: the status
\* under the lock is that of an acquisition with its yearsToSync and no other
\* invocation is at work under the lock. When the lock is held by a different
\* sync it raises 'already running', processes no league and leaves the lock
\* and status keys alone.
C27_LockOwnershipCheck ==
    [][\A r \in Requests :
        /\ (pc[r] = "salVerify" /\ pc'[r] = "lgGet")
           => /\ status.present
              /\ status.val.yearsToSync = years[r]
              /\ status.val.currentLeague = EmptyStatus.currentLeague
              /\ \A q \in Requests \ {r} : ~InBlock(q)
        /\ (pc[r] = "salVerify" /\ pc'[r] = "bgCatch")
           => /\ err'[r] = "already running"
              /\ lg'[r] = 0
              /\ lock' = lock /\ status' = status]_vars

\* ---------------------------------------------------------------------- C28
\* C28: the lock covers the run. Whenever an invocation of syncAllLeagues is
\* inside its reconciliation loop the lock key holds "running" and
\* isSyncRunning() answers true, across the progress updates and however long
\* the run lasts.
C28_LockCoversRun == \A r \in Requests : InLoop(r) => (lock.present /\ lock.val = "running" /\ isSyncRunning)

\* ---------------------------------------------------------------------- C29
\* a step of the cleanup of run r (the terminal status write, the finally
\* block, the background .catch handler) that changes the lock or status key
CleanupBy(r) ==
    /\ pc[r] \in {"finalSet", "catchSet", "finDelLock", "finDelStatus", "bgCatch"}
    /\ pc'[r] # pc[r] \/ bgSet'[r] # bgSet[r] \/ bgDel'[r] # bgDel[r]
    /\ lock' # lock \/ status' # status

\* C29: release respects ownership. The cleanup of a run that finishes or
\* fails deletes the lock key and overwrites or deletes the status key only
\* when they are its own: never while a different run, which acquired the
\* lock after this run's lock expired or was lost, is at work under them.
C29_ReleaseRespectsOwnership ==
    [][\A r \in Requests : CleanupBy(r) => \A q \in Requests \ {r} : ~InLoop(q)]_vars

\* ---------------------------------------------------------------------- C30
\* C30: the rate limit under concurrent callers. With the matches of
\* getUpcomingMatches enriched in parallel the counter never exceeds 28, no
\* more than 28 provider calls are issued between two resets, and a reset
\* after a cooldown finds the counter at the limit (or at 0, just reset): it
\* discards no increment another caller has made since an earlier reset.
C30_RateLimitConcurrent ==
    [][/\ apiCallCount' <= RATE_LIMIT
       /\ quota'.issued <= RATE_LIMIT
       /\ \A c \in Callers :
            (call[c].pc = "sleep" /\ call'[c].pc = "count")
                => (apiCallCount >= RATE_LIMIT \/ apiCallCount = 0)]_vars

\* ---------------------------------------------------------------------- C31
\* the store holds some but not all of the matches the provider lists for the
\* past season k, and no run is at work on the matches of k
Incomplete(k) ==
    /\ k[2] # seasonLabel(k[1], year)
    /\ HoldsSeason(matchStore, k[1], k[2])
    /\ \E i \in DOMAIN feed[k] : MatchesWith(matchStore, feed[k][i]) = {}
    /\ \A r \in Requests : ~(pc[r] = "matchLoop" /\ <<leagues[lg[r]], Season(r)>> = k)

\* C31: incomplete past seasons are never completed. Once a run has left a
\* past season with some but not all of its matches stored, every later
\* examination of that season skips it: no listing of it is requested, none of
\* its missing matches is stored, and the season stays incomplete.
C31_IncompleteSeasonStays ==
    [][\A k \in Keys :
        Incomplete(k) =>
            /\ Incomplete(k)'
            /\ \A r \in Requests :
                  /\ obs'[r].listed # obs[r].listed => obs'[r].listed[Len(obs'[r].listed)] # k
                  /\ (pc[r] = "seasonExamine" /\ sp[r].i <= years[r]
                        /\ <<leagues[lg[r]], Season(r)>> = k /\ sp'[r] # sp[r])
                     => /\ pc'[r] = "seasonExamine"
                        /\ sp'[r].i = sp[r].i + 1
                        /\ sp'[r].res.skippedSeasons = sp[r].res.skippedSeasons + 1
            /\ \A i \in DOMAIN feed[k] :
                  MatchesWith(matchStore, feed[k][i]) = {} => MatchesWith(matchStore', feed[k][i]) = {}]_vars

\* the first run stored one of the two matches of a past season, the second
\* run has ended without requesting that season
C31_Witness ==
    \E k \in Keys :
        /\ Incomplete(k)
        /\ Len(feed[k]) = 2
        /\ pc[1] = "done" /\ pc[2] = "done" /\ err[2] = "none"
        /\ k \in ListedBy(1)
        /\ k \notin ListedBy(2)
        /\ agg[2].skippedSeasons >= 1
\* ------------------------------------------- venue resolution, per match
\* a venue write that raises: the store fails, or a coordinate of the update is
\* NaN, which the Number cast of the schema (venue.schema.ts 89-93) rejects
CastFails(lat, lon) == lat = NaN \/ lon = NaN

\* the body of for (const matchData of matches) (lines 479-645) for an event
\* of the current La Liga season, given the provider's answer to the search:
\* the search is always made; a venue found is upserted with the coordinates
\* resolved; weather is fetched if (lat && lon); the match is upserted; a
\* failure is caught at line 638 and ends the processing of the match
SyncMatch(e, venueData, failure) ==
    \E c \in {Resolution[venueData]} :
    \E venueRaises \in {venueData.found /\ (failure = "venue upsert" \/ CastFails(c.lat, c.lon))} :
        LET matchData == MatchData(e, LA_LIGA, seasonLabel(LA_LIGA, year))
            weatherCalled == ~venueRaises /\ Truthy(c.lat) /\ Truthy(c.lon)
            weatherData == IF venueRaises THEN "null" ELSE WeatherFor(c.lat, c.lon)
            raised == venueRaises \/ failure # "none"
        IN  /\ failure = "venue upsert" => venueData.found
            /\ venueStore' = IF venueData.found /\ ~venueRaises
                             THEN UpsertVenue(venueStore, matchData.idVenue, c.lat, c.lon)
                             ELSE venueStore
            /\ matchStore' = IF ~raised
                             THEN UpsertMatch(matchStore, MatchDocument(matchData, weatherData))
                             ELSE matchStore
            /\ vr' = [op |-> "sync", v |-> matchData.idVenue, answer |-> venueData,
                      extracted |-> c.extracted, fallback |-> venueData.found /\ c.fallback,
                      lat |-> c.lat, lon |-> c.lon, inDb |-> FALSE, searched |-> TRUE,
                      wrote |-> venueData.found /\ ~venueRaises,
                      failure |-> failure, raised |-> raised,
                      weatherCalls |-> IF weatherCalled THEN 1 ELSE 0,
                      weather |-> weatherData]
            /\ UNCHANGED <<now, lock, status, pc, years, resp, acqFrom, busy, lg, cur, err, bgSet, bgDel>>
            /\ UNCHANGED <<year, feed, scores, weatherMode, sp, agg, obs>>
            /\ UNCHANGED <<apiCallCount, call, apiKey, quota, up, ex>>

\* a lookup that takes any stored venue as resolved
UsableInDb_AnyStored(store, i) == i # 0

\* venueInDb && venueInDb.lat && venueInDb.lon (line 47)
UsableInDb(store, i) == i # 0 /\ Truthy(store[i].lat) /\ Truthy(store[i].lon)

EnrichFailures == {"none", "venue lookup", "venue upsert"}

\* the enrichment of one upcoming match (lines 38-154), given the provider's
\* answer to a search: the stored venue is used if it holds lat && lon;
\* otherwise the venue is searched, its coordinates resolved, and saved only
\* if (lat && lon && match.idVenue); weather is fetched if
\* (lat && lon && match.strTimestamp); a failure is caught at line 144
EnrichMatch(t, venueData, failure, strTimestamp) ==
    \E i \in {FindOneVenue(venueStore, t)} :
    \E inDb \in {UsableInDb(venueStore, i)} :
    \E searched \in {failure # "venue lookup" /\ ~inDb} :
    \E c \in {IF inDb THEN [extracted |-> NoCoords, fallback |-> FALSE,
                            lat |-> venueStore[i].lat, lon |-> venueStore[i].lon]
              ELSE Resolution[IF searched THEN venueData ELSE NoVenue]} :
    \E saves \in {searched /\ venueData.found /\ Truthy(c.lat) /\ Truthy(c.lon)} :
    \E raised \in {failure = "venue lookup" \/ (saves /\ failure = "venue upsert")} :
        LET weatherCalled == ~raised /\ Truthy(c.lat) /\ Truthy(c.lon) /\ strTimestamp
            weatherData == IF weatherCalled THEN WeatherFor(c.lat, c.lon) ELSE "null"
        IN  /\ venueData # NoVenue => searched
            /\ failure = "venue upsert" => saves
            /\ venueStore' = IF saves /\ ~raised THEN UpsertVenue(venueStore, t, c.lat, c.lon)
                             ELSE venueStore
            /\ vr' = [op |-> "upcoming", v |-> t, answer |-> venueData,
                      extracted |-> c.extracted, fallback |-> c.fallback,
                      lat |-> IF failure = "venue lookup" THEN Undef ELSE c.lat,
                      lon |-> IF failure = "venue lookup" THEN Undef ELSE c.lon,
                      inDb |-> inDb, searched |-> searched,
                      wrote |-> saves /\ ~raised,
                      failure |-> failure, raised |-> raised,
                      weatherCalls |-> IF weatherCalled THEN 1 ELSE 0,
                      weather |-> weatherData]
            /\ UNCHANGED <<now, lock, status, pc, years, resp, acqFrom, busy, lg, cur, err, bgSet, bgDel>>
            /\ UNCHANGED <<year, feed, scores, weatherMode, matchStore, sp, agg, obs>>
            /\ UNCHANGED <<apiCallCount, call, apiKey, quota, up, ex>>

\* the event whose venue is resolved
FirstEvent == {e \in EventIds : e - 1 \notin EventIds}

\* a match of a listing is processed, outside the stepwise call of
\* getUpcomingMatches: the provider answers the venue search, a store may fail
SyncResolution(e) ==
    /\ up.pc = "idle"
    /\ \E venueData \in VenueAnswers, failure \in Failures : SyncMatch(e, venueData, failure)

\* an upcoming match is enriched, with or without a strTimestamp
UpcomingResolution(t) ==
    /\ up.pc = "idle"
    /\ \E venueData \in VenueAnswers, failure \in EnrichFailures, strTimestamp \in BOOLEAN :
            EnrichMatch(t, venueData, failure, strTimestamp)

NextVenue ==
    \/ \E e \in FirstEvent : SyncResolution(e)
    \/ \E t \in FirstEvent : UpcomingResolution(t)

\* a match is synced and enriched as an upcoming match, any number of times in
\* any order, with any answer of the provider to each venue search
SpecVenue == Init /\ [][NextVenue]_vars
\* a stored venue has coordinates when neither is missing
HasCoordinates(venue) == venue.lat # Undef /\ venue.lon # Undef

OneVenuePerId == \A id \in EventIds : Cardinality(VenuesWith(venueStore, id)) <= 1
\* ---------------------------------------------------------------------- C32
\* the venue of the resolution about to be made is stored without coordinates
StoredWithoutCoordinates(id) ==
    \E i \in VenuesWith(venueStore, id) : ~HasCoordinates(venueStore[i])

C34_ExtractorFirst ==
    vr.extracted.found =>
        /\ vr.lat = vr.extracted.lat
        /\ vr.lon = vr.extracted.lon
        /\ ~vr.fallback

\* ---------------------------------------------------------------------- C35
\* the resolution ended with a pair of numbers within range
ProducedValidPair ==
    /\ vr.lat \notin {Undef, NaN}
    /\ vr.lon \notin {Undef, NaN}
    /\ ValidCoordinates([lat |-> vr.lat, lon |-> vr.lon])

\* C35: weather is fetched exactly when coordinates were found. For a match of
\* a fetched season whose venue step did not raise, the weather client is
\* called once if the resolution produced a valid pair within range (a
\* latitude or longitude of 0 included) and not at all if none was found.
C35_WeatherIffCoordinates ==
    vr.op = "sync" /\ vr.failure # "venue upsert" =>
        /\ ProducedValidPair => vr.weatherCalls = 1
        /\ vr.lat = Undef /\ vr.lon = Undef => vr.weatherCalls = 0

\* ---------------------------------------------------------------------- C36
\* C36: venue persistence. During sync every venue the search finds is
\* upserted under the match's venue id, whether or not coordinates were
\* obtained (the store not failing); a venue not found causes no venue write;
\* there is at most one stored venue per venue id.
C36_FoundVenueUpserted ==
    /\ vr.op = "sync" /\ vr.answer.found /\ vr.failure = "none" =>
          vr.wrote /\ VenuesWith(venueStore, vr.v) # {}
    /\ vr.op = "sync" /\ ~vr.answer.found => ~vr.wrote
    /\ OneVenuePerId

\* a venue not found is never written
C36_NotFoundNotWritten ==
    [][vr'.op = "sync" /\ ~vr'.answer.found => venueStore' = venueStore]_vars
\* ---------------------------------------------------------------------- C38
\* the text is an integer in 1..20
IntegerInRange(param) ==
    param.given /\ param.tail = "" /\ ValidYears(param.lead)

\* every run that got past the validation has yearsToSync in 1..20
C38_AcceptedYearsInRange ==
    \A r \in Requests : pc[r] \notin {"idle", "responded"} => years[r] \in MIN_YEARS..MAX_YEARS

\* C38: start-request validation. When no sync is running, a start request
\* whose yearsToSync is not an integer in 1..20 is rejected without acquiring
\* the lock, writing STATUS or starting a run; a request with no yearsToSync
\* goes on to acquire the lock with yearsToSync = 5; every request that goes on
\* has yearsToSync in 1..20.
C38_StartValidation ==
    [][\A r \in Requests, param \in Params :
          CtrlCheck(r, param) /\ ~isSyncRunning =>
              /\ param.given /\ ~IntegerInRange(param) =>
                    /\ resp'[r] = 400
                    /\ pc'[r] = "responded"
                    /\ UNCHANGED <<lock, status>>
              /\ ~param.given => pc'[r] = "acqGet" /\ years'[r] = DEFAULT_YEARS
              /\ pc'[r] = "acqGet" => years'[r] \in MIN_YEARS..MAX_YEARS]_vars
\* ---------------------------------------------------------------------- C39
\* the step is an enrichment failure of match t: its venue lookup, its venue
\* upsert or its weather fetch raised
EnrichmentFails(t) ==
    \/ TaskFindOne(t, TRUE)
    \/ TaskSave(t, TRUE)
    \/ TaskWeathered(t) /\ call[t].out.kind = "raises"

\* C39: getUpcomingMatches returns exactly one enriched record per match the
\* provider listed, in the provider's order; an enrichment failure of one
\* match (venue lookup, venue upsert or weather fetch raising) ends that match
\* with weatherAtMatchTime = null, changes no other match's record and does
\* not make the call fail.
C39_OneRecordPerMatch ==
    [][/\ up.pc = "enrich" =>
            /\ up'.pc \in {"enrich", "returned"}
            /\ up'.n = up.n
            /\ \A t \in Callers : up.task[t].pc = "done" => up'.task[t] = up.task[t]
       /\ up'.pc = "returned" =>
            \A t \in Callers : up'.task[t].pc = IF t <= up'.n THEN "done" ELSE "none"
       /\ \A t \in Callers :
            EnrichmentFails(t) =>
                /\ up'.task[t].pc = "done"
                /\ up'.task[t].weather = "null"
                /\ \A u \in Callers \ {t} : up'.task[u] = up.task[u]]_vars

\* a call returned two records: the first match with its weather, the second,
\* whose venue lookup raised before any search, with null
C39_Witness ==
    /\ up.pc = "returned"
    /\ up.n = 2
    /\ up.task[1].pc = "done" /\ up.task[1].weather = "snapshot"
    /\ up.task[2] = [NoTask EXCEPT !.pc = "done"]
    /\ apiCallCount = 2
\* --------------------------------- syncPreviousMatches called on its own
\* a league id that is neither of the two supported
OtherLeague == LA_LIGA + 1
LeagueIds == {LA_LIGA, MLS, OtherLeague}

\* syncPreviousMatches(leagueId, yearsToSync) is called outside syncAllLeagues,
\* once the calls before it have ended
DirectCall(r, leagueId, yearsToSync) ==
    /\ pc[r] = "idle"
    /\ \A q \in Requests : q < r => pc[q] \in {"returned", "raised"}
    /\ pc' = [pc EXCEPT ![r] = "seasonExamine"]
    /\ years' = [years EXCEPT ![r] = yearsToSync]
    /\ sp' = [sp EXCEPT ![r] = [NoFrame EXCEPT !.leagueId = leagueId, !.currentYear = year]]
    /\ UNCHANGED <<now, lock, status, resp, acqFrom, busy, lg, cur, err, bgSet, bgDel>>
    /\ UNCHANGED <<year, feed, scores, weatherMode, matchStore, venueStore, agg, obs>>
    /\ UNCHANGED clientVars

NextLeague ==
    \/ \E r \in Requests, leagueId \in LeagueIds : DirectCall(r, leagueId, MIN_YEARS)
    \/ \E r \in Requests : SeasonExamine(r) \/ SeasonFetch(r) \/ SeasonDone(r) \/ SyncReturn(r)
    \/ \E r \in Requests, failure \in Failures : ProcessMatch(r, failure)

\* calls of syncPreviousMatches one after the other, for supported and
\* unsupported leagues, over every feed
SpecLeague == InitSync /\ [][NextLeague]_vars

\* ---------------------------------------------------------------------- C37
\* C37: an unsupported league is a fatal configuration error. A call of
\* syncPreviousMatches with a league id other than 4335 or 4346 raises in its
\* first iteration, with no provider call and no store write made and no
\* season counted or skipped, and the call does nothing after it has raised.
C37_UnsupportedLeagueRaises ==
    [][\A r \in Requests :
          /\ pc[r] = "seasonExamine" /\ sp[r].leagueId \notin {LA_LIGA, MLS} /\ pc'[r] # "idle" =>
                /\ sp[r].i = 0 /\ sp[r].res = EmptyResult
                /\ obs[r] = NoObs
                /\ pc'[r] = "raised"
                /\ err'[r] = "unsupported league"
                /\ UNCHANGED <<matchStore, venueStore, obs, agg>>
          /\ pc[r] = "raised" => pc'[r] = "raised" /\ err'[r] = err[r] /\ obs'[r] = obs[r]]_vars

\* a call for an unsupported league has raised without a provider call, after
\* a call for a supported league stored a match
C37_Witness ==
    /\ pc[1] = "returned"
    /\ matchStore # <<>>
    /\ pc[2] = "raised" /\ err[2] = "unsupported league"
    /\ obs[2] = NoObs

====
